---- MODULE Spec2Model ----
(***************************************************************************)
(* Model of the kube-cmd command line tools.                               *)
(*                                                                         *)
(* Part 1: the deployment rollout controller, i.e. the two programs        *)
(*   kube-deploy   (runDeploy, waitForDeploymentRollout, listDeployments)  *)
(*   kube-rollout  (runRollout)                                            *)
(* One behaviour of Spec is one invocation of one of the two programs      *)
(* against a cluster that holds one Deployment.  The program is cut into   *)
(* actions at its calls to the cluster API and at its sleeps: between two  *)
(* such calls other clients of the cluster may act (OtherActor).           *)
(*                                                                         *)
(* The Deployment's status block is written by the cluster's deployment    *)
(* controller, which is outside this repository: every Get may return any  *)
(* status, so the status is drawn afresh at each Get.                      *)
(*                                                                         *)
(* Part 2: kube-port-forward (runPortForward, parsePortSpec,               *)
(* resolveTargetPod, main).  One behaviour of SpecForward is one process:  *)
(* the main goroutine, the goroutine that waits for a signal, the          *)
(* goroutine that runs ForwardPorts, and the signals sent to the process.  *)
(* SpecPorts runs parsePortSpec alone on every short port specification.   *)
(* Strings that the code takes apart are sequences of characters.          *)
(***************************************************************************)
EXTENDS Integers, Sequences, FiniteSets, TLC

VARIABLES
    tool,        \* which program runs: "kube-deploy" or "kube-rollout"
    args,        \* positional arguments (cobra args)
    image,       \* value of --image (kube-deploy), a sequence of characters
    nsFlag,      \* value of -n/--namespace ("" when not given)
    doRestart,   \* value of --restart (kube-rollout)
    pc,          \* position of the program
    ns,          \* local ns
    i,           \* loop counter of the wait loop
    dep,         \* local dep: <<>>, or <<the object returned by the last Get>>
    cluster,     \* the Deployment object stored by the API server
    result,      \* Running, or the value returned by RunE: Nil or an error
    stdout,      \* lines printed, counted by kind: observations, completion
                 \* messages, other messages, table rows
    fetches,     \* history: Get calls issued by the wait loop
    sleeps,      \* history: time.Sleep calls made
    updates,     \* history: Update calls issued (accepted or rejected)
    lists,       \* history: List calls issued
    writtenRV,   \* history: resourceVersion produced by this program's Update
    callStart,   \* history: instant (in ticks) at which the restart was started
    otherWrites  \* history: writes made by other clients of the cluster

\* kube-port-forward
VARIABLES
    target,               \* args[0], a sequence of characters
    portSpec,             \* args[1], a sequence of characters
    portForwardNamespace, \* value of -n/--namespace ("" when not given)
    fpc,                  \* position of the main goroutine
    ports,                \* <<>>, or <<localPort, remotePort>>
    targetNamespace,      \* local targetNamespace
    eps,                  \* local eps: <<>>, or <<the subsets of the Endpoints>>
    podName,              \* local podName, a sequence of characters
    forwardResult,        \* Running, or the value returned by RunE
    lookups,              \* history: Get calls issued, by resource, and the
                          \* name given to the last one
    stopCh,               \* number of close(stopCh) executed
    readyCh,              \* number of close(readyCh) executed
    signalCh,             \* signals buffered in signalCh (capacity 1)
    notified,             \* signal.Notify has been called
    handler,              \* position of the goroutine that receives the signal
    forwarder,            \* position of the goroutine that runs ForwardPorts
    signals,              \* history: SIGINT/SIGTERM sent to the process
    stderr,               \* lines written to stderr, counted by prefix
    exitCode              \* Absent, or the exit code of the process

rolloutVars ==
    <<tool, args, image, nsFlag, doRestart, pc, ns, i, dep, cluster, result,
      stdout, fetches, sleeps, updates, lists, writtenRV, callStart,
      otherWrites>>

forwardVars ==
    <<target, portSpec, portForwardNamespace, fpc, ports, targetNamespace, eps,
      podName, forwardResult, lookups, stopCh, readyCh, signalCh, notified,
      handler, forwarder, signals, stderr, exitCode>>

\* The two wait loops run side by side on the same observations
VARIABLES
    waitLoop,             \* waitForDeploymentRollout: i, position, result
    rolloutLoop           \* the loop of runRollout: i, position, result

loopVars == <<waitLoop, rolloutLoop>>

\* kube-exec and kube-logs
VARIABLES
    streamTool,           \* which program runs: "kube-exec" or "kube-logs"
    dashIndex,            \* cmd.ArgsLenAtDash() (kube-exec)
    containerName,        \* execContainer / logsContainerName ("" when not given)
    pod,                  \* local pod: <<>>, or <<the names of its containers>>
    spc,                  \* position of the program
    stream,               \* the log stream: its content, how it ends, and
                          \* how much of it has been read
    printed,              \* the log lines written to stdout, in order
    listed,               \* the container names written to stdout, in order
    streamsOpened,        \* history: exec and log streams opened
    streamResult          \* Pending, or the value returned by RunE

streamVars ==
    <<streamTool, dashIndex, containerName, pod, spc, stream, printed, listed,
      streamsOpened, streamResult>>

\* The kubeconfig files and the programs that read and write them
VARIABLES
    env,                  \* the environment: KUBECONFIG ("" when unset) and
                          \* whether the service-account token file exists
    files,                \* the kubeconfig file at each path
    invocation,           \* the last program run: its name, argument and flags
    outcome               \* what it returned and did

configVars == <<env, files, invocation, outcome>>

miscVars == <<loopVars, streamVars, configVars>>

vars == <<rolloutVars, forwardVars, miscVars>>

----------------------------------------------------------------------------
\* Bounds of the model

MaxReplicas == 1         \* replica counts range over 0..MaxReplicas
MaxOtherWrites == 1      \* writes by other clients during one invocation
MaxElapse == 1           \* ticks between the start of a call and its time.Now()
TicksPerSecond == 2      \* resolution of the model's clock

\* Program constants

MaxAttempts == 180       \* for i := 0; i < 180; i++

NoRV == 0               \* no resourceVersion: the program wrote nothing
Absent == 0 - 1         \* value of a key a map does not hold
OldStamp == 0           \* a timestamp older than every instant of the model

DeploymentName == "backend"
DeploymentNamespace == "my-ns"
CurrentNamespace == "default"   \* namespace of the kubeconfig's current context
RestartedAt == "kubectl.kubernetes.io/restartedAt"
OtherAnnotation == "checksum/config"

Space == " "
Tab == "\t"
WhiteSpace == {Space, Tab}

----------------------------------------------------------------------------
\* Inputs

Tools == {"kube-deploy", "kube-rollout"}
ArgLists == {<<>>, <<DeploymentName>>, <<"missing">>}
Images == {<<>>, <<Space>>, <<Tab, Space>>, <<Space, "a">>}
NamespaceFlags == {"", DeploymentNamespace}
Replicas == 0..MaxReplicas
\* Instants at which a call starts: the first and the last tick of a second
StartTimes == {TicksPerSecond, 2 * TicksPerSecond - 1}

\* The template annotations a Deployment may carry before the invocation:
\* a nil map, or a map holding some of the two keys.
AnnotationKeys == {RestartedAt, OtherAnnotation}
NilMap == [nil |-> TRUE, kv |-> [k \in AnnotationKeys |-> Absent]]
AnnotationMaps ==
    {NilMap,
     [nil |-> FALSE, kv |-> [k \in AnnotationKeys |->
                               IF k = OtherAnnotation THEN OldStamp ELSE Absent]],
     [nil |-> FALSE, kv |-> [k \in AnnotationKeys |-> OldStamp]]}

ContainerLists == {<<<<"x">>>>, <<<<"x">>, <<"y">>>>}

\* The status blocks the deployment controller may have written for an object
\* of generation g: it has seen the latest generation, or not yet.
Statuses(g) ==
    [observedGeneration : {g - 1, g},
     updatedReplicas : Replicas,
     readyReplicas : Replicas,
     availableReplicas : Replicas]

----------------------------------------------------------------------------
\* Pure functions of the programs

RECURSIVE TrimLeft(_)
TrimLeft(s) ==
    IF s # <<>> /\ Head(s) \in WhiteSpace THEN TrimLeft(Tail(s)) ELSE s

RECURSIVE TrimRight(_)
TrimRight(s) ==
    IF s # <<>> /\ s[Len(s)] \in WhiteSpace
    THEN TrimRight(SubSeq(s, 1, Len(s) - 1))
    ELSE s

\* Mutant: the flag is only compared with the empty string
TrimSpace_Identity(s) == s

\* strings.TrimSpace
TrimSpace(s) == TrimRight(TrimLeft(s))

\* Mutant: only the first container gets the image
SetImages_FirstOnly(d, img) ==
    [d EXCEPT !.containers = [k \in 1..Len(d.containers) |->
                                 IF k = 1 THEN img ELSE d.containers[k]]]

\* for i := range dep.Spec.Template.Spec.Containers { ...[i].Image = image }
SetImages(d, img) ==
    [d EXCEPT !.containers = [k \in 1..Len(d.containers) |-> img]]

\* time.Now().Format(time.RFC3339): the instant t (in ticks) written with a
\* precision of one second; the timestamp is the number of whole seconds.
FormatRFC3339(t) == t \div TicksPerSecond

\* The instant (in ticks) an RFC3339 timestamp denotes.
InstantOf(stamp) == stamp * TicksPerSecond

\* Mutant: the annotation is written into a fresh map
TouchRestartedAt_FreshMap(d, now) ==
    [d EXCEPT !.annotations =
        [nil |-> FALSE,
         kv |-> [k \in AnnotationKeys |->
                   IF k = RestartedAt THEN FormatRFC3339(now) ELSE Absent]]]

\* if Annotations == nil { Annotations = map[string]string{} }
\* Annotations["kubectl.kubernetes.io/restartedAt"] = time.Now().Format(...)
TouchRestartedAt(d, now) ==
    LET a == IF d.annotations.nil
             THEN [nil |-> FALSE, kv |-> [k \in AnnotationKeys |-> Absent]]
             ELSE d.annotations
    IN  [d EXCEPT !.annotations =
                      [a EXCEPT !.kv[RestartedAt] = FormatRFC3339(now)]]

\* Mutant: the test the function's comment describes (available == desired,
\* the generation not looked at)
WaitComplete_NoGeneration(d) ==
    /\ d.status.updatedReplicas = d.replicas
    /\ d.status.readyReplicas = d.replicas
    /\ d.status.availableReplicas = d.replicas

\* The convergence test of waitForDeploymentRollout
WaitComplete(d) ==
    /\ d.status.updatedReplicas = d.replicas
    /\ d.status.readyReplicas = d.replicas
    /\ d.status.availableReplicas = d.replicas
    /\ d.status.observedGeneration >= d.generation

\* Mutant: > for >= on the generation
RolloutComplete_StrictGeneration(d) ==
    /\ d.status.updatedReplicas = d.replicas
    /\ d.status.readyReplicas = d.replicas
    /\ d.status.availableReplicas = d.replicas
    /\ d.status.observedGeneration > d.generation

\* The convergence test of runRollout's loop
RolloutComplete(d) ==
    /\ d.status.updatedReplicas = d.replicas
    /\ d.status.readyReplicas = d.replicas
    /\ d.status.availableReplicas = d.replicas
    /\ d.status.observedGeneration >= d.generation

\* fmt.Errorf values: the format, its argument and the wrapped error
Err(msg, arg, cause) == [msg |-> msg, arg |-> arg, cause |-> cause]
Nil == Err("", "", "")              \* the nil error
Running == Err("running", "", "")   \* RunE has not returned yet

----------------------------------------------------------------------------
\* The cluster API as the programs use it

\* Deployments(ns).Get(name) finds the object
Found(namespace, name) ==
    namespace = cluster.namespace /\ name = cluster.name

\* Mutant: the desired replica count is not the one the cluster holds now
Fetched_FirstReplicas(st) ==
    [name |-> cluster.name,
     namespace |-> cluster.namespace,
     resourceVersion |-> cluster.resourceVersion,
     generation |-> cluster.generation,
     replicas |-> IF otherWrites = 0 THEN cluster.replicas
                  ELSE MaxReplicas - cluster.replicas,
     containers |-> cluster.containers,
     annotations |-> cluster.annotations,
     status |-> st]

\* The object a successful Get returns when the controller's status is st
Fetched(st) ==
    [name |-> cluster.name,
     namespace |-> cluster.namespace,
     resourceVersion |-> cluster.resourceVersion,
     generation |-> cluster.generation,
     replicas |-> cluster.replicas,
     containers |-> cluster.containers,
     annotations |-> cluster.annotations,
     status |-> st]

\* Deployments(ns).Update(d) is accepted: optimistic concurrency on
\* metadata.resourceVersion
UpdateAccepted(d) == d.resourceVersion = cluster.resourceVersion

\* The object stored by an accepted Update: a new resourceVersion, and a
\* new generation when the spec differs
Stored(d) ==
    LET specOf(o) == <<o.replicas, o.containers, o.annotations>>
    IN  [name |-> d.name,
         namespace |-> d.namespace,
         resourceVersion |-> cluster.resourceVersion + 1,
         generation |-> IF specOf(d) = specOf(cluster)
                        THEN cluster.generation
                        ELSE cluster.generation + 1,
         replicas |-> d.replicas,
         containers |-> d.containers,
         annotations |-> d.annotations]

----------------------------------------------------------------------------
\* A Go error of kube-port-forward: format, formatted argument (characters),
\* message of the wrapped error
Errorf(msg, arg, cause) == [msg |-> msg, arg |-> arg, cause |-> cause]
NoError == Errorf("", <<>>, "")
Pending == Errorf("running", <<>>, "")

\* kube-port-forward before runPortForward has done anything
ForwardFresh ==
    /\ ports = <<>>
    /\ targetNamespace = ""
    /\ eps = <<>>
    /\ podName = <<>>
    /\ forwardResult = Pending
    /\ lookups = [pods |-> 0, endpoints |-> 0, name |-> <<>>]
    /\ stopCh = 0
    /\ readyCh = 0
    /\ signalCh = 0
    /\ notified = FALSE
    /\ handler = "none"
    /\ forwarder = "none"
    /\ signals = 0
    /\ stderr = [Error |-> 0, PortForwardingError |-> 0]
    /\ exitCode = Absent

\* kube-port-forward is not running
ForwardIdle ==
    /\ target = <<>>
    /\ portSpec = <<>>
    /\ portForwardNamespace = ""
    /\ fpc = "idle"
    /\ ForwardFresh

\* The two wait loops are not run side by side
LoopsIdle ==
    /\ waitLoop = [i |-> 0, pc |-> "idle", result |-> Running, fetches |-> 0,
                   obs |-> 0]
    /\ rolloutLoop = [i |-> 0, pc |-> "idle", result |-> Running, fetches |-> 0,
                      obs |-> 0]

\* kube-exec and kube-logs before they have done anything
StreamFresh ==
    /\ pod = <<>>
    /\ stream = [content |-> <<>>, end |-> "EOF", read |-> 0]
    /\ printed = <<>>
    /\ listed = <<>>
    /\ streamsOpened = 0
    /\ streamResult = Pending

\* kube-exec and kube-logs are not running
StreamIdle ==
    /\ streamTool = ""
    /\ dashIndex = 0
    /\ containerName = ""
    /\ spc = "idle"
    /\ StreamFresh

\* No kubeconfig file
NoFile == [missing |-> TRUE]

\* No program has run
NoInvocation ==
    [tool |-> "", arg |-> "", namespace |-> "", context |-> "", all |-> FALSE]

\* Nothing was returned or done
NoOutcome ==
    [result |-> Pending, client |-> "", clientContext |-> "", listed |-> FALSE,
     namespace |-> "", wrote |-> "", shown |-> ""]

\* No program that reads a kubeconfig runs
ConfigIdle ==
    /\ env = [KUBECONFIG |-> "", inCluster |-> FALSE]
    /\ files = [p \in {"~/.kube/config", "/path/to/kubeconfig"} |-> NoFile]
    /\ invocation = NoInvocation
    /\ outcome = NoOutcome

\* Nothing but the program of the specification runs
MiscIdle == LoopsIdle /\ StreamIdle /\ ConfigIdle

Init ==
    /\ ForwardIdle
    /\ MiscIdle
    /\ tool \in Tools
    /\ args \in ArgLists
    /\ image \in Images
    /\ nsFlag \in NamespaceFlags
    /\ doRestart \in BOOLEAN
    /\ (tool = "kube-deploy" => doRestart = FALSE)
    /\ (tool = "kube-rollout" => image = <<>> /\ args # <<>>)
    /\ pc = "start"
    /\ ns = ""
    /\ i = 0
    /\ dep = <<>>
    /\ \E r \in Replicas, a \in AnnotationMaps, c \in ContainerLists :
          \* kube-deploy does not touch the annotations and kube-rollout does
          \* not touch the containers: the fullest value of each is kept
          /\ tool = "kube-deploy" => a.kv[RestartedAt] # Absent
          /\ tool = "kube-rollout" => Len(c) = 2
          /\ cluster = [name |-> DeploymentName,
                        namespace |-> DeploymentNamespace,
                        resourceVersion |-> 1,
                        generation |-> 1,
                        replicas |-> r,
                        containers |-> c,
                        annotations |-> a]
    /\ result = Running
    /\ stdout = [obs |-> 0, complete |-> 0, msgs |-> 0, rows |-> 0]
    /\ fetches = 0
    /\ sleeps = 0
    /\ updates = 0
    /\ lists = 0
    /\ writtenRV = NoRV
    /\ callStart = 0
    /\ otherWrites = 0

Return(err) ==
    /\ pc' = "done"
    /\ result' = err

\* Mutant: the loop gives up one attempt early
WaitLoopCond_Short(n) == n < MaxAttempts - 1

\* for i := 0; i < 180; i++ (waitForDeploymentRollout)
WaitLoopCond(n) == n < MaxAttempts

\* Mutant: <= for <
RolloutLoopCond_OffByOne(n) == n <= MaxAttempts

\* for i := 0; i < 180; i++ (runRollout)
RolloutLoopCond(n) == n < MaxAttempts

\* Mutant: a failed Get is treated as "not yet converged" and polled again
waitFetchError_Retry(cause) ==
    /\ pc' = "sleep"
    /\ result' = result

\* waitForDeploymentRollout: if err != nil { return ... }
waitFetchError(cause) ==
    Return(Err("failed to get deployment during rollout", "", cause))

\* Mutant: the error of the Get is swallowed
rolloutFetchError_Swallowed(cause) == Return(Nil)

\* runRollout's loop: if err != nil { return ... }
rolloutFetchError(cause) ==
    Return(Err("failed to get deployment", "", cause))

\* waitForDeploymentRollout: the error returned after the loop
waitTimeoutError(name) ==
    Err("timeout waiting for rollout of deployment", name, "")

\* Mutant: the timeout does not say which deployment
rolloutTimeoutError_Anonymous(name) ==
    Err("timeout waiting for rollout of deployment", "", "")

\* runRollout: the error returned after the loop
rolloutTimeoutError(name) ==
    Err("timeout waiting for rollout of deployment", name, "")

\* Mutant: the error of Update is dropped and the rollout is waited for
deployUpdateError_Ignored ==
    /\ pc' = "poll"
    /\ result' = result

\* runDeploy: if _, err := ...Update(...); err != nil { return ... }
deployUpdateError ==
    Return(Err("failed to update deployment", "", "conflict"))

\* runRollout: if _, err := ...Update(...); err != nil { return ... }
rolloutUpdateError ==
    Return(Err("failed to update deployment", "", "conflict"))

----------------------------------------------------------------------------
\* kube-deploy

\* runDeploy up to its first call to the cluster: the client, the namespace,
\* the argument checks
runDeploy_Start ==
    /\ pc = "start"
    /\ UNCHANGED <<forwardVars, miscVars>>
    /\ tool = "kube-deploy"
    /\ UNCHANGED <<tool, args, image, nsFlag, doRestart, i, dep, cluster, stdout,
                   fetches, sleeps, updates, lists, writtenRV, callStart,
                   otherWrites>>
    /\ \E clientOk \in BOOLEAN, nsOk \in BOOLEAN :
          IF ~clientOk
          THEN /\ Return(Err("failed to create kubernetes client", "", "config"))
               /\ ns' = ns
          ELSE IF nsFlag = "" /\ ~nsOk
          THEN /\ Return(Err("failed to get current namespace", "", "kubeconfig"))
               /\ ns' = ns
          ELSE /\ ns' = IF nsFlag = "" THEN CurrentNamespace ELSE nsFlag
               /\ IF Len(args) = 0
                  THEN pc' = "list" /\ result' = result
                  ELSE IF TrimSpace(image) = <<>>
                  THEN Return(Err("--image is required when specifying a deployment",
                                  "", ""))
                  ELSE pc' = "get" /\ result' = result

\* listDeployments: one List call, then the table
listDeployments ==
    /\ pc = "list"
    /\ UNCHANGED <<forwardVars, miscVars>>
    /\ lists' = lists + 1
    /\ \E apiOk \in BOOLEAN :
          IF apiOk
          THEN /\ stdout' = [stdout EXCEPT
                              !.rows = IF ns = cluster.namespace THEN 1 ELSE 0]
               /\ Return(Nil)
          ELSE /\ stdout' = stdout
               /\ Return(Err("failed to list deployments", "", "api"))
    /\ UNCHANGED <<tool, args, image, nsFlag, doRestart, ns, i, dep, cluster,
                   fetches, sleeps, updates, writtenRV, callStart,
                   otherWrites>>

\* runDeploy: Get current Deployment
runDeploy_Get ==
    /\ pc = "get"
    /\ UNCHANGED <<forwardVars, miscVars>>
    /\ tool = "kube-deploy"
    /\ \E apiOk \in BOOLEAN :
          IF apiOk /\ Found(ns, args[1])
          THEN /\ \E st \in Statuses(cluster.generation) : dep' = <<Fetched(st)>>
               /\ pc' = "update"
               /\ result' = result
          ELSE /\ dep' = dep
               /\ Return(Err("failed to get deployment", args[1],
                             IF Found(ns, args[1]) THEN "api" ELSE "not found"))
    /\ UNCHANGED <<tool, args, image, nsFlag, doRestart, ns, i, cluster, stdout,
                   fetches, sleeps, updates, lists, writtenRV, callStart,
                   otherWrites>>

\* runDeploy: set the image of all containers, then Update
runDeploy_Update ==
    /\ pc = "update"
    /\ UNCHANGED <<forwardVars, miscVars>>
    /\ tool = "kube-deploy"
    /\ updates' = updates + 1
    /\ LET d == SetImages(dep[1], image)
       IN  IF UpdateAccepted(d)
           THEN /\ cluster' = Stored(d)
                /\ writtenRV' = cluster'.resourceVersion
                /\ dep' = <<>>
                /\ stdout' = [stdout EXCEPT !.msgs = @ + 1]
                /\ pc' = "poll"
                /\ result' = result
           ELSE /\ UNCHANGED <<cluster, writtenRV, stdout>>
                /\ dep' = <<>>
                /\ deployUpdateError
    /\ UNCHANGED <<tool, args, image, nsFlag, doRestart, ns, i, fetches, sleeps,
                   lists, callStart, otherWrites>>

\* waitForDeploymentRollout: one Get and the convergence test
waitForDeploymentRollout_Get ==
    /\ pc = "poll"
    /\ UNCHANGED <<forwardVars, miscVars>>
    /\ tool = "kube-deploy"
    /\ fetches' = fetches + 1
    /\ \E apiOk \in BOOLEAN :
          IF apiOk /\ Found(ns, args[1])
          THEN \E st \in Statuses(cluster.generation) :
                  /\ dep' = <<Fetched(st)>>
                  /\ IF WaitComplete(dep'[1])
                     THEN /\ stdout' = [stdout EXCEPT !.complete = @ + 1]
                          /\ Return(Nil)
                     ELSE /\ stdout' = stdout
                          /\ pc' = "sleep"
                          /\ result' = result
          ELSE /\ dep' = <<>>
               /\ stdout' = stdout
               /\ waitFetchError(IF Found(ns, args[1]) THEN "api" ELSE "not found")
    /\ UNCHANGED <<tool, args, image, nsFlag, doRestart, ns, i, cluster, sleeps,
                   updates, lists, writtenRV, callStart, otherWrites>>

\* waitForDeploymentRollout: time.Sleep, i++, and the loop's exit
waitForDeploymentRollout_Sleep ==
    /\ pc = "sleep"
    /\ UNCHANGED <<forwardVars, miscVars>>
    /\ tool = "kube-deploy"
    /\ sleeps' = sleeps + 1
    /\ i' = i + 1
    /\ dep' = <<>>
    /\ IF WaitLoopCond(i')
       THEN pc' = "poll" /\ result' = result
       ELSE Return(waitTimeoutError(args[1]))
    /\ UNCHANGED <<tool, args, image, nsFlag, doRestart, ns, cluster, stdout,
                   fetches, updates, lists, writtenRV, callStart,
                   otherWrites>>

----------------------------------------------------------------------------
\* kube-rollout

\* runRollout up to its first call to the cluster
runRollout_Start ==
    /\ pc = "start"
    /\ UNCHANGED <<forwardVars, miscVars>>
    /\ tool = "kube-rollout"
    /\ UNCHANGED <<tool, args, image, nsFlag, doRestart, i, dep, cluster, stdout,
                   fetches, sleeps, updates, lists, writtenRV, otherWrites>>
    /\ \E clientOk \in BOOLEAN, nsOk \in BOOLEAN :
          IF ~clientOk
          THEN /\ Return(Err("failed to create kubernetes client", "", "config"))
               /\ UNCHANGED <<ns, callStart>>
          ELSE IF nsFlag = "" /\ ~nsOk
          THEN /\ Return(Err("failed to get current namespace", "", "kubeconfig"))
               /\ UNCHANGED <<ns, callStart>>
          ELSE /\ ns' = IF nsFlag = "" THEN CurrentNamespace ELSE nsFlag
               /\ result' = result
               /\ IF doRestart
                  THEN /\ pc' = "get"
                       /\ callStart' \in StartTimes
                  ELSE /\ pc' = "poll"
                       /\ callStart' = callStart

\* runRollout, restart: Get the Deployment
runRollout_RestartGet ==
    /\ pc = "get"
    /\ UNCHANGED <<forwardVars, miscVars>>
    /\ tool = "kube-rollout"
    /\ \E apiOk \in BOOLEAN :
          IF apiOk /\ Found(ns, args[1])
          THEN /\ \E st \in Statuses(cluster.generation) : dep' = <<Fetched(st)>>
               /\ pc' = "update"
               /\ result' = result
          ELSE /\ dep' = dep
               /\ Return(Err("failed to get deployment", args[1],
                             IF Found(ns, args[1]) THEN "api" ELSE "not found"))
    /\ UNCHANGED <<tool, args, image, nsFlag, doRestart, ns, i, cluster, stdout,
                   fetches, sleeps, updates, lists, writtenRV, callStart,
                   otherWrites>>

\* runRollout, restart: touch the restartedAt annotation, then Update
runRollout_RestartUpdate ==
    /\ pc = "update"
    /\ UNCHANGED <<forwardVars, miscVars>>
    /\ tool = "kube-rollout"
    /\ updates' = updates + 1
    /\ \E now \in callStart..(callStart + MaxElapse) :
       LET d == TouchRestartedAt(dep[1], now)
       IN  IF UpdateAccepted(d)
           THEN /\ cluster' = Stored(d)
                /\ writtenRV' = cluster'.resourceVersion
                /\ dep' = <<>>
                /\ stdout' = [stdout EXCEPT !.msgs = @ + 1]
                /\ pc' = "poll"
                /\ result' = result
           ELSE /\ UNCHANGED <<cluster, writtenRV, stdout>>
                /\ dep' = <<>>
                /\ rolloutUpdateError
    /\ UNCHANGED <<tool, args, image, nsFlag, doRestart, ns, i, fetches, sleeps,
                   lists, callStart, otherWrites>>

\* runRollout's loop: one Get, the printed observation, the convergence test
runRollout_Poll ==
    /\ pc = "poll"
    /\ UNCHANGED <<forwardVars, miscVars>>
    /\ tool = "kube-rollout"
    /\ fetches' = fetches + 1
    /\ \E apiOk \in BOOLEAN :
          IF apiOk /\ Found(ns, args[1])
          THEN \E st \in Statuses(cluster.generation) :
                  /\ dep' = <<Fetched(st)>>
                  /\ IF RolloutComplete(dep'[1])
                     THEN /\ stdout' = [stdout EXCEPT !.obs = @ + 1,
                                                      !.complete = @ + 1]
                          /\ Return(Nil)
                     ELSE /\ stdout' = [stdout EXCEPT !.obs = @ + 1]
                          /\ pc' = "sleep"
                          /\ result' = result
          ELSE /\ dep' = <<>>
               /\ stdout' = stdout
               /\ rolloutFetchError(IF Found(ns, args[1]) THEN "api" ELSE "not found")
    /\ UNCHANGED <<tool, args, image, nsFlag, doRestart, ns, i, cluster, sleeps,
                   updates, lists, writtenRV, callStart, otherWrites>>

\* runRollout's loop: time.Sleep, the status-only return, i++, the loop's exit
runRollout_Sleep ==
    /\ pc = "sleep"
    /\ UNCHANGED <<forwardVars, miscVars>>
    /\ tool = "kube-rollout"
    /\ sleeps' = sleeps + 1
    /\ dep' = <<>>
    /\ IF ~doRestart
       THEN /\ i' = i
            /\ Return(Nil)
       ELSE /\ i' = i + 1
            /\ IF RolloutLoopCond(i')
               THEN pc' = "poll" /\ result' = result
               ELSE Return(rolloutTimeoutError(args[1]))
    /\ UNCHANGED <<tool, args, image, nsFlag, doRestart, ns, cluster, stdout,
                   fetches, updates, lists, writtenRV, callStart,
                   otherWrites>>

----------------------------------------------------------------------------
\* Another client of the cluster scales the Deployment while the program runs

OtherActor ==
    /\ pc # "done"
    /\ UNCHANGED <<forwardVars, miscVars>>
    /\ otherWrites < MaxOtherWrites
    /\ otherWrites' = otherWrites + 1
    /\ \E r \in Replicas \ {cluster.replicas} :
          cluster' = [cluster EXCEPT !.replicas = r,
                                     !.generation = @ + 1,
                                     !.resourceVersion = @ + 1]
    /\ UNCHANGED <<tool, args, image, nsFlag, doRestart, pc, ns, i, dep, result,
                   stdout, fetches, sleeps, updates, lists, writtenRV,
                   callStart>>

----------------------------------------------------------------------------
Next ==
    \/ runDeploy_Start
    \/ listDeployments
    \/ runDeploy_Get
    \/ runDeploy_Update
    \/ waitForDeploymentRollout_Get
    \/ waitForDeploymentRollout_Sleep
    \/ runRollout_Start
    \/ runRollout_RestartGet
    \/ runRollout_RestartUpdate
    \/ runRollout_Poll
    \/ runRollout_Sleep
    \/ OtherActor

Spec == Init /\ [][Next]_vars

----------------------------------------------------------------------------
\* Part 2: kube-port-forward

\* Bounds

MaxSpecLen == 4          \* length of the port specifications of SpecPorts
MaxAddresses == 3        \* addresses of an Endpoints object, over all subsets
MaxSignals == 2          \* SIGINT/SIGTERM sent to one process

\* kube-deploy and kube-rollout are not running
RolloutIdle ==
    /\ tool = "kube-port-forward"
    /\ args = <<>>
    /\ image = <<>>
    /\ nsFlag = ""
    /\ doRestart = FALSE
    /\ pc = "idle"
    /\ ns = ""
    /\ i = 0
    /\ dep = <<>>
    /\ cluster = [name |-> "", namespace |-> "", resourceVersion |-> NoRV,
                  generation |-> 0, replicas |-> 0, containers |-> <<>>,
                  annotations |-> NilMap]
    /\ result = Running
    /\ stdout = [obs |-> 0, complete |-> 0, msgs |-> 0, rows |-> 0]
    /\ fetches = 0
    /\ sleeps = 0
    /\ updates = 0
    /\ lists = 0
    /\ writtenRV = NoRV
    /\ callStart = 0
    /\ otherWrites = 0

\* All strings of at most n characters of A
Strings(A, n) == UNION {[1..k -> A] : k \in 0..n}

Digit == {"0", "1", "2", "3", "4", "5", "6", "7", "8", "9"}

DigitValue(c) ==
    CASE c = "0" -> 0 [] c = "1" -> 1 [] c = "2" -> 2 [] c = "3" -> 3
      [] c = "4" -> 4 [] c = "5" -> 5 [] c = "6" -> 6 [] c = "7" -> 7
      [] c = "8" -> 8 [] c = "9" -> 9

RECURSIVE Decimal(_)
\* Value of a sequence of digits
Decimal(s) ==
    IF s = <<>> THEN 0
    ELSE 10 * Decimal(SubSeq(s, 1, Len(s) - 1)) + DigitValue(s[Len(s)])

\* strconv.Atoi: an optional sign, then one or more digits; anything else is
\* an error.  (Values beyond 64 bits are out of the model's reach.)
Atoi(s) ==
    LET signed == s # <<>> /\ s[1] \in {"+", "-"}
        digits == IF signed THEN Tail(s) ELSE s
    IN  IF digits = <<>> \/ \E k \in 1..Len(digits) : digits[k] \notin Digit
        THEN [ok |-> FALSE, val |-> 0]
        ELSE [ok |-> TRUE,
              val |-> IF signed /\ s[1] = "-" THEN 0 - Decimal(digits)
                      ELSE Decimal(digits)]

\* Position of the first sep in s, or 0
IndexOf(s, sep) ==
    IF \E k \in 1..Len(s) : s[k] = sep
    THEN CHOOSE k \in 1..Len(s) : s[k] = sep /\ \A j \in 1..(k - 1) : s[j] # sep
    ELSE 0

RECURSIVE Split(_, _)
\* strings.Split(s, sep) for a one-character sep
Split(s, sep) ==
    LET k == IndexOf(s, sep)
    IN  IF k = 0 THEN <<s>>
        ELSE <<SubSeq(s, 1, k - 1)>> \o Split(SubSeq(s, k + 1, Len(s)), sep)

\* strings.SplitN(s, sep, 2)
SplitN2(s, sep) ==
    LET k == IndexOf(s, sep)
    IN  IF k = 0 THEN <<s>>
        ELSE <<SubSeq(s, 1, k - 1), SubSeq(s, k + 1, Len(s))>>

\* parsePortSpec's switch on len(parts)
parsePorts(parts) ==
    CASE Len(parts) = 1 ->
            LET port == Atoi(parts[1])
            IN  IF ~port.ok
                THEN [local |-> 0, remote |-> 0,
                      err |-> Errorf("invalid port number", parts[1], "")]
                ELSE [local |-> port.val, remote |-> port.val, err |-> NoError]
      [] Len(parts) = 2 ->
            LET local == Atoi(parts[1])
                remote == Atoi(parts[2])
            IN  IF ~local.ok
                THEN [local |-> 0, remote |-> 0,
                      err |-> Errorf("invalid local port number", parts[1], "")]
                ELSE IF ~remote.ok
                THEN [local |-> 0, remote |-> 0,
                      err |-> Errorf("invalid remote port number", parts[2], "")]
                ELSE [local |-> local.val, remote |-> remote.val, err |-> NoError]
      [] OTHER ->
            [local |-> 0, remote |-> 0,
             err |-> Errorf("invalid port specification format", <<>>, "")]

\* Mutant: the two ports change places
parsePortSpec_Swapped(spec) ==
    LET p == parsePorts(Split(spec, ":"))
    IN  [p EXCEPT !.local = p.remote, !.remote = p.local]

\* parsePortSpec: (localPort, remotePort, err)
parsePortSpec(spec) == parsePorts(Split(spec, ":"))

\* Port specifications and targets given to one process of SpecForward
PortSpecs == {<<"1", ":", "2">>, <<"2">>, <<"a">>, <<"1", ":", "2", ":", "1">>}

inputVars == <<target, portSpec, portForwardNamespace>>
channelVars == <<stopCh, readyCh, signalCh, notified, handler, forwarder, signals>>

\* return err, in runPortForward
ReturnForward(err) ==
    /\ fpc' = "returned"
    /\ forwardResult' = err

\* runPortForward, lines 47-54: the arguments and parsePortSpec
runPortForward_Parse ==
    /\ fpc = "parse"
    /\ LET p == parsePortSpec(portSpec)
       IN  IF p.err # NoError
           THEN /\ ReturnForward(Errorf("invalid port specification", portSpec,
                                        p.err.msg))
                /\ ports' = ports
           ELSE /\ ports' = <<p.local, p.remote>>
                /\ fpc' = "client"
                /\ forwardResult' = forwardResult
    /\ UNCHANGED <<miscVars, rolloutVars, inputVars, channelVars, targetNamespace, eps,
                   podName, lookups, stderr, exitCode>>

\* strings.ToLower, on the letters the targets are written with
Lower(c) ==
    CASE c = "S" -> "s" [] c = "V" -> "v" [] c = "C" -> "c" [] c = "E" -> "e"
      [] c = "R" -> "r" [] c = "I" -> "i" [] c = "A" -> "a" [] OTHER -> c

ToLower(s) == [k \in 1..Len(s) |-> Lower(s[k])]

\* strings.HasPrefix
HasPrefix(s, prefix) ==
    Len(s) >= Len(prefix) /\ SubSeq(s, 1, Len(prefix)) = prefix

\* Mutant: the prefix is compared in the case the user wrote it
IsServiceTarget_CaseSensitive(t) ==
    \/ HasPrefix(t, <<"s", "v", "c", "/">>)
    \/ HasPrefix(t, <<"s", "e", "r", "v", "i", "c", "e", "/">>)

\* resolveTargetPod: the test for a service target
IsServiceTarget(t) ==
    LET lower == ToLower(t)
    IN  \/ HasPrefix(lower, <<"s", "v", "c", "/">>)
        \/ HasPrefix(lower, <<"s", "e", "r", "v", "i", "c", "e", "/">>)

\* Targets given to one process of SpecForward
Targets ==
    {<<"s", "v", "c", "/", "a">>, <<"S", "v", "C", "/", "a">>,
     <<"s", "e", "r", "v", "i", "c", "e", "/", "a">>,
     <<"S", "E", "R", "V", "I", "C", "E", "/">>, <<"s", "v", "c", "/">>,
     <<"s", "v", "c", "/", "a", "/", "b">>,
     <<"s", "v", "c">>, <<"a">>, <<"a", "/", "b">>}

\* An address of an Endpoints subset: its TargetRef (ref is FALSE for nil)
NoRef == [ref |-> FALSE, kind |-> "", name |-> <<>>]
Addresses ==
    {NoRef}
    \cup [ref : {TRUE}, kind : {"Pod"}, name : {<<>>, <<"p">>, <<"q">>}]
    \cup [ref : {TRUE}, kind : {"Node"}, name : {<<"p">>}]

\* The subsets of an Endpoints object: at most MaxAddresses addresses, in
\* zero, one or two subsets
Listings ==
    {<<>>}
    \cup {<<flat>> : flat \in Strings(Addresses, MaxAddresses)}
    \cup UNION {{<<SubSeq(flat, 1, k), SubSeq(flat, k + 1, Len(flat))>> :
                    k \in 0..Len(flat)} :
                 flat \in Strings(Addresses, MaxAddresses)}

\* Mutant: every address that has a TargetRef counts
IsPodRef_AnyKind(addr) == addr.ref

\* resolveTargetPod: the test of one address
IsPodRef(addr) == addr.ref /\ addr.kind = "Pod" /\ addr.name # <<>>

RECURSIVE scanAddresses(_)
\* for _, addr := range subset.Addresses: <<the name returned>>, or <<>>
scanAddresses(addrs) ==
    IF addrs = <<>> THEN <<>>
    ELSE IF IsPodRef(Head(addrs)) THEN <<Head(addrs).name>>
    ELSE scanAddresses(Tail(addrs))

RECURSIVE scanSubsets(_)
\* for _, subset := range eps.Subsets: <<the name returned>>, or <<>>
scanSubsets(subsets) ==
    IF subsets = <<>> THEN <<>>
    ELSE LET found == scanAddresses(Head(subsets))
         IN  IF found # <<>> THEN found ELSE scanSubsets(Tail(subsets))

\* runPortForward, lines 56-69: the client and the namespace
runPortForward_Client ==
    /\ fpc = "client"
    /\ \E clientOk, namespaceOk \in BOOLEAN :
          IF ~clientOk
          THEN /\ ReturnForward(Errorf("failed to create kubernetes client",
                                       <<>>, "config"))
               /\ targetNamespace' = targetNamespace
          ELSE IF portForwardNamespace # ""
          THEN /\ targetNamespace' = portForwardNamespace
               /\ fpc' = "resolve"
               /\ forwardResult' = forwardResult
          ELSE IF ~namespaceOk
          THEN /\ ReturnForward(Errorf("failed to get current namespace",
                                       <<>>, "config"))
               /\ targetNamespace' = targetNamespace
          ELSE /\ targetNamespace' = CurrentNamespace
               /\ fpc' = "resolve"
               /\ forwardResult' = forwardResult
    /\ UNCHANGED <<miscVars, rolloutVars, inputVars, channelVars, ports, eps, podName,
                   lookups, stderr, exitCode>>

\* Mutant: a failed Endpoints lookup is tried again
endpointsError_Retry(svcName, cause) ==
    /\ fpc' = fpc
    /\ forwardResult' = forwardResult

\* resolveTargetPod: if err != nil, after the Get of the Endpoints
endpointsError(svcName, cause) ==
    ReturnForward(Errorf("failed to get endpoints for service", svcName, cause))

\* Mutant: the pod is not looked up, the name is taken as it is
podError_Ignored(name, cause) ==
    /\ fpc' = "transport"
    /\ forwardResult' = forwardResult

\* resolveTargetPod: if err != nil, after the Get of the Pod
podError(name, cause) ==
    ReturnForward(Errorf("failed to get pod", name, cause))

\* resolveTargetPod, lines 169-180 and 192-195: the one Get of the call
resolveTargetPod_Lookup ==
    /\ fpc = "resolve"
    /\ IF IsServiceTarget(target)
       THEN LET parts == SplitN2(target, "/")
            IN  IF Len(parts) # 2 \/ parts[2] = <<>>
                THEN /\ ReturnForward(Errorf("invalid service target, expected svc/<name>",
                                             <<>>, ""))
                     /\ UNCHANGED <<lookups, eps, podName>>
                ELSE /\ lookups' = [lookups EXCEPT !.endpoints = @ + 1,
                                                   !.name = parts[2]]
                     /\ podName' = podName
                     /\ \/ /\ \E cause \in {"api", "not found"} :
                                 endpointsError(parts[2], cause)
                           /\ eps' = eps
                        \/ /\ eps' \in {<<l>> : l \in Listings}
                           /\ fpc' = "scan"
                           /\ forwardResult' = forwardResult
       ELSE /\ lookups' = [lookups EXCEPT !.pods = @ + 1, !.name = target]
            /\ eps' = eps
            /\ \/ /\ \E cause \in {"api", "not found"} : podError(target, cause)
                  /\ podName' = podName
               \/ /\ podName' = target
                  /\ fpc' = "transport"
                  /\ forwardResult' = forwardResult
    /\ UNCHANGED <<miscVars, rolloutVars, inputVars, channelVars, ports, targetNamespace,
                   stderr, exitCode>>

\* resolveTargetPod, lines 181-188: the two loops over the Endpoints
resolveTargetPod_Scan ==
    /\ fpc = "scan"
    /\ LET found == scanSubsets(eps[1])
       IN  IF found # <<>>
           THEN /\ podName' = found[1]
                /\ fpc' = "transport"
                /\ forwardResult' = forwardResult
           ELSE /\ podName' = podName
                /\ ReturnForward(Errorf("no backing pod found for service",
                                        SplitN2(target, "/")[2], ""))
    /\ eps' = <<>>
    /\ UNCHANGED <<miscVars, rolloutVars, inputVars, channelVars, ports, targetNamespace,
                   lookups, stderr, exitCode>>

\* Marks a process ended by the default action of a signal
KilledBySignal == 0 - 2

\* runPortForward, lines 85-119: the transport, the channels, signal.Notify,
\* the goroutine that waits for the signal, portforward.New, the goroutine
\* that runs ForwardPorts
runPortForward_Setup ==
    /\ fpc = "transport"
    /\ exitCode = Absent
    /\ \E transportOk, newOk \in BOOLEAN :
          IF ~transportOk
          THEN /\ ReturnForward(Errorf("failed to create SPDY transport",
                                       <<>>, "config"))
               /\ UNCHANGED <<notified, handler, forwarder>>
          ELSE /\ notified' = TRUE
               /\ handler' = "waiting"
               /\ IF ~newOk
                  THEN /\ ReturnForward(Errorf("failed to create port forwarder",
                                               <<>>, "ports"))
                       /\ forwarder' = forwarder
                  ELSE /\ forwarder' = "dialing"
                       /\ fpc' = "waitReady"
                       /\ forwardResult' = forwardResult
    /\ UNCHANGED <<miscVars, rolloutVars, inputVars, ports, targetNamespace, eps, podName,
                   lookups, stopCh, readyCh, signalCh, signals, stderr, exitCode>>

\* runPortForward, lines 122-125: <-readyCh, then the two lines printed
runPortForward_WaitReady ==
    /\ fpc = "waitReady"
    /\ exitCode = Absent
    /\ readyCh > 0
    /\ fpc' = "waitStop"
    /\ UNCHANGED <<miscVars, rolloutVars, inputVars, channelVars, ports, targetNamespace,
                   eps, podName, forwardResult, lookups, stderr, exitCode>>

\* runPortForward, lines 128-130: <-stopCh, return nil
runPortForward_WaitStop ==
    /\ fpc = "waitStop"
    /\ exitCode = Absent
    /\ stopCh > 0
    /\ ReturnForward(NoError)
    /\ UNCHANGED <<miscVars, rolloutVars, inputVars, channelVars, ports, targetNamespace,
                   eps, podName, lookups, stderr, exitCode>>

\* main: the error of Execute is printed behind "Error:" and the process
\* exits with 1; without an error main returns and the process exits with 0
main_Exit ==
    /\ fpc = "returned"
    /\ exitCode = Absent
    /\ fpc' = "exited"
    /\ IF forwardResult # NoError
       THEN /\ stderr' = [stderr EXCEPT !.Error = @ + 1]
            /\ exitCode' = 1
       ELSE /\ stderr' = stderr
            /\ exitCode' = 0
    /\ UNCHANGED <<miscVars, rolloutVars, inputVars, channelVars, ports, targetNamespace,
                   eps, podName, forwardResult, lookups>>

\* Mutant: the goroutine waits for the next signal after close(stopCh)
handlerNext_Loop == "waiting"

\* The goroutine of lines 101-105 ends after close(stopCh)
handlerNext == "exited"

\* The goroutine of lines 101-105: <-signalCh, close(stopCh)
signalHandler ==
    /\ handler = "waiting"
    /\ exitCode = Absent
    /\ signalCh > 0
    /\ signalCh' = signalCh - 1
    /\ stopCh' = stopCh + 1
    /\ handler' = handlerNext
    /\ UNCHANGED <<miscVars, rolloutVars, inputVars, fpc, ports, targetNamespace, eps,
                   podName, forwardResult, lookups, readyCh, notified, forwarder,
                   signals, stderr, exitCode>>

\* The goroutine of lines 115-119, first half: ForwardPorts dials the pod and
\* listens on the local port; it returns an error when either fails, and
\* closes readyCh when both succeed
ForwardPorts_Dial ==
    /\ forwarder = "dialing"
    /\ exitCode = Absent
    /\ \/ /\ forwarder' = "exited"
          /\ stderr' = [stderr EXCEPT !.PortForwardingError = @ + 1]
          /\ readyCh' = readyCh
       \/ /\ forwarder' = "forwarding"
          /\ stderr' = stderr
          /\ readyCh' = readyCh + 1
    /\ UNCHANGED <<miscVars, rolloutVars, inputVars, fpc, ports, targetNamespace, eps,
                   podName, forwardResult, lookups, stopCh, signalCh, notified,
                   handler, signals, exitCode>>

\* The goroutine of lines 115-119, second half: ForwardPorts returns nil once
\* stopCh is closed; when the connection to the pod is lost it returns, with
\* an error or without one depending on the version of the library
ForwardPorts_Return ==
    /\ forwarder = "forwarding"
    /\ exitCode = Absent
    /\ forwarder' = "exited"
    /\ \/ /\ stopCh > 0
          /\ stderr' = stderr
       \/ \E lostConnectionIsError \in BOOLEAN :
             stderr' = IF lostConnectionIsError
                       THEN [stderr EXCEPT !.PortForwardingError = @ + 1]
                       ELSE stderr
    /\ UNCHANGED <<miscVars, rolloutVars, inputVars, fpc, ports, targetNamespace, eps,
                   podName, forwardResult, lookups, stopCh, readyCh, signalCh,
                   notified, handler, signals, exitCode>>

\* SIGINT or SIGTERM is sent to the process.  After signal.Notify the signal
\* is put into signalCh, or dropped when signalCh is full; before it the
\* signal ends the process.
Interrupt ==
    /\ fpc \notin {"idle", "exited"}
    /\ exitCode = Absent
    /\ signals < MaxSignals
    /\ signals' = signals + 1
    /\ IF notified
       THEN /\ signalCh' = IF signalCh < 1 THEN signalCh + 1 ELSE signalCh
            /\ UNCHANGED <<fpc, exitCode>>
       ELSE /\ signalCh' = signalCh
            /\ fpc' = "exited"
            /\ exitCode' = KilledBySignal
    /\ UNCHANGED <<miscVars, rolloutVars, inputVars, ports, targetNamespace, eps, podName,
                   forwardResult, lookups, stopCh, readyCh, notified, handler,
                   forwarder, stderr>>

InitForward ==
    /\ RolloutIdle
    /\ MiscIdle
    /\ target \in Targets
    /\ portSpec \in PortSpecs
    /\ portForwardNamespace \in NamespaceFlags
    /\ fpc = "parse"
    /\ ForwardFresh

NextForward ==
    \/ runPortForward_Parse
    \/ runPortForward_Client
    \/ resolveTargetPod_Lookup
    \/ resolveTargetPod_Scan
    \/ runPortForward_Setup
    \/ runPortForward_WaitReady
    \/ runPortForward_WaitStop
    \/ main_Exit
    \/ signalHandler
    \/ ForwardPorts_Dial
    \/ ForwardPorts_Return
    \/ Interrupt

SpecForward == InitForward /\ [][NextForward]_vars

\* Characters of the port specifications of SpecPorts
SpecAlphabet == {"1", "2", ":", "a", "-"}

InitPorts ==
    /\ RolloutIdle
    /\ MiscIdle
    /\ target = <<"a">>
    /\ portSpec \in Strings(SpecAlphabet, MaxSpecLen)
    /\ portForwardNamespace = ""
    /\ fpc = "parse"
    /\ ForwardFresh

NextPorts == runPortForward_Parse

SpecPorts == InitPorts /\ [][NextPorts]_vars

----------------------------------------------------------------------------
\* Part 3: the wait loop of kube-deploy and the wait loop of kube-rollout in
\* restart mode, run side by side: every iteration gives both loops the same
\* outcome of the Get.

\* Outcomes of one Get: an error, or the Deployment with some replica count
\* and some status
FetchOutcomes ==
    [ok : {FALSE}, cause : {"api", "not found"}, d : {<<>>}]
    \cup [ok : {TRUE}, cause : {""},
          d : {<<[replicas |-> r, generation |-> 1, status |-> st]>> :
                  r \in Replicas, st \in Statuses(1)}]

\* One iteration of waitForDeploymentRollout's loop, the loop's exit included
waitIteration(s, o) ==
    IF ~o.ok
    THEN [s EXCEPT !.fetches = @ + 1, !.pc = "done",
                   !.result = Err("failed to get deployment during rollout",
                                  "", o.cause)]
    ELSE IF WaitComplete(o.d[1])
    THEN [s EXCEPT !.fetches = @ + 1, !.pc = "done", !.result = Nil]
    ELSE IF WaitLoopCond(s.i + 1)
    THEN [s EXCEPT !.fetches = @ + 1, !.i = @ + 1]
    ELSE [s EXCEPT !.fetches = @ + 1, !.i = @ + 1, !.pc = "done",
                   !.result = waitTimeoutError(DeploymentName)]

\* One iteration of runRollout's loop with doRestart, the loop's exit included
rolloutIteration(s, o) ==
    IF ~o.ok
    THEN [s EXCEPT !.fetches = @ + 1, !.pc = "done",
                   !.result = Err("failed to get deployment", "", o.cause)]
    ELSE IF RolloutComplete(o.d[1])
    THEN [s EXCEPT !.fetches = @ + 1, !.obs = @ + 1, !.pc = "done",
                   !.result = Nil]
    ELSE IF RolloutLoopCond(s.i + 1)
    THEN [s EXCEPT !.fetches = @ + 1, !.obs = @ + 1, !.i = @ + 1]
    ELSE [s EXCEPT !.fetches = @ + 1, !.obs = @ + 1, !.i = @ + 1, !.pc = "done",
                   !.result = rolloutTimeoutError(DeploymentName)]

\* Both loops, as far as they still run, make one iteration on the same
\* outcome
LoopsIterate ==
    /\ waitLoop.pc = "poll" \/ rolloutLoop.pc = "poll"
    /\ \E o \in FetchOutcomes :
          /\ waitLoop' = IF waitLoop.pc = "poll" THEN waitIteration(waitLoop, o)
                         ELSE waitLoop
          /\ rolloutLoop' = IF rolloutLoop.pc = "poll"
                            THEN rolloutIteration(rolloutLoop, o)
                            ELSE rolloutLoop
    /\ UNCHANGED <<rolloutVars, forwardVars, streamVars, configVars>>

InitLoops ==
    /\ RolloutIdle
    /\ ForwardIdle
    /\ StreamIdle
    /\ ConfigIdle
    /\ waitLoop = [i |-> 0, pc |-> "poll", result |-> Running, fetches |-> 0,
                   obs |-> 0]
    /\ rolloutLoop = [i |-> 0, pc |-> "poll", result |-> Running, fetches |-> 0,
                      obs |-> 0]

NextLoops == LoopsIterate

SpecLoops == InitLoops /\ [][NextLoops]_vars

----------------------------------------------------------------------------
\* Part 4: kube-exec (runExec) and kube-logs (runLogs)

MaxLogLen == 3           \* characters of a log stream

NewLine == "\n"

\* The containers of the pods (a pod has at least one container)
PodContainers == {<<"app">>, <<"app", "sidecar">>, <<"app", "sidecar", "proxy">>}
ContainerFlags == {"", "app", "sidecar"}

\* The log streams: the characters delivered, and what ends them
LogAlphabet == {"a", "b", NewLine}
LogStreams ==
    [content : Strings(LogAlphabet, MaxLogLen), end : {"EOF", "error"},
     read : {0}]

\* return err, in runExec and runLogs
ReturnStream(err) ==
    /\ spc' = "returned"
    /\ streamResult' = err

\* Mutant: the first container is taken when none is given
ambiguousContainer_Guess(name, containers) == FALSE

\* if container == "" && len(pod.Spec.Containers) > 1
ambiguousContainer(name, containers) == name = "" /\ Len(containers) > 1

\* The Get of the pod and the choice of the container, the same in runExec
\* and runLogs
GetPodAndSelect ==
    \/ /\ \E cause \in {"api", "not found"} :
             ReturnStream(Errorf("failed to get pod", <<>>, cause))
       /\ UNCHANGED <<pod, listed, containerName>>
    \/ \E containers \in PodContainers :
          /\ pod' = <<containers>>
          /\ IF ambiguousContainer(containerName, containers)
             THEN /\ listed' = containers
                  /\ containerName' = containerName
                  /\ ReturnStream(Errorf("please specify container with -c flag",
                                         <<>>, ""))
             ELSE /\ listed' = listed
                  /\ containerName' = IF containerName = "" THEN containers[1]
                                      ELSE containerName
                  /\ spc' = "stream"
                  /\ streamResult' = streamResult

\* runExec, lines 45-70: the arguments, the client and the namespace
runExec_Start ==
    /\ streamTool = "kube-exec"
    /\ spc = "start"
    /\ IF dashIndex = 0 - 1
       THEN ReturnStream(Errorf("invalid syntax. Use: kube-exec [pod-name] -- [command...]",
                                <<>>, ""))
       ELSE IF dashIndex < 1
       THEN ReturnStream(Errorf("pod name is required before --", <<>>, ""))
       ELSE \E ok \in BOOLEAN :
               IF ok THEN spc' = "getPod" /\ streamResult' = streamResult
               ELSE ReturnStream(Errorf("failed to create kubernetes client",
                                        <<>>, "config"))
    /\ UNCHANGED <<rolloutVars, forwardVars, loopVars, configVars, streamTool, dashIndex,
                   containerName, pod, stream, printed, listed, streamsOpened>>

\* runExec, lines 72-90: the pod and the container
runExec_GetPod ==
    /\ streamTool = "kube-exec"
    /\ spc = "getPod"
    /\ GetPodAndSelect
    /\ UNCHANGED <<rolloutVars, forwardVars, loopVars, configVars, streamTool, dashIndex,
                   stream, printed, streamsOpened>>

\* runExec, lines 92-125: the executor and its Stream
runExec_Stream ==
    /\ streamTool = "kube-exec"
    /\ spc = "stream"
    /\ \E executorOk, streamOk \in BOOLEAN :
          IF ~executorOk
          THEN /\ ReturnStream(Errorf("failed to create executor", <<>>, "config"))
               /\ streamsOpened' = streamsOpened
          ELSE /\ streamsOpened' = streamsOpened + 1
               /\ IF streamOk THEN ReturnStream(NoError)
                  ELSE ReturnStream(Errorf("failed to execute command", <<>>,
                                           "stream"))
    /\ UNCHANGED <<rolloutVars, forwardVars, loopVars, configVars, streamTool, dashIndex,
                   containerName, pod, stream, printed, listed>>

\* runLogs, lines 52-67: the client and the namespace
runLogs_Start ==
    /\ streamTool = "kube-logs"
    /\ spc = "start"
    /\ \E ok \in BOOLEAN :
          IF ok THEN spc' = "getPod" /\ streamResult' = streamResult
          ELSE ReturnStream(Errorf("failed to create kubernetes client",
                                   <<>>, "config"))
    /\ UNCHANGED <<rolloutVars, forwardVars, loopVars, configVars, streamTool, dashIndex,
                   containerName, pod, stream, printed, listed, streamsOpened>>

\* runLogs, lines 69-87: the pod and the container
runLogs_GetPod ==
    /\ streamTool = "kube-logs"
    /\ spc = "getPod"
    /\ GetPodAndSelect
    /\ UNCHANGED <<rolloutVars, forwardVars, loopVars, configVars, streamTool, dashIndex,
                   stream, printed, streamsOpened>>

\* runLogs, lines 89-113: the options, req.Stream and the reader
runLogs_Stream ==
    /\ streamTool = "kube-logs"
    /\ spc = "stream"
    /\ \/ /\ ReturnStream(Errorf("failed to get logs stream", <<>>, "stream"))
          /\ UNCHANGED <<stream, streamsOpened>>
       \/ /\ stream' \in LogStreams
          /\ streamsOpened' = streamsOpened + 1
          /\ spc' = "read"
          /\ streamResult' = streamResult
    /\ UNCHANGED <<rolloutVars, forwardVars, loopVars, configVars, streamTool, dashIndex,
                   containerName, pod, printed, listed>>

\* What is left of the stream
Unread(st) == SubSeq(st.content, st.read + 1, Len(st.content))

\* strings.TrimSuffix(line, "\n")
TrimSuffix(line) ==
    IF line # <<>> /\ line[Len(line)] = NewLine
    THEN SubSeq(line, 1, Len(line) - 1)
    ELSE line

\* runLogs, lines 114-132: one reader.ReadString('\n') and what follows it
runLogs_ReadString ==
    /\ streamTool = "kube-logs"
    /\ spc = "read"
    /\ LET rest == Unread(stream)
           k == IndexOf(rest, NewLine)
       IN  IF k # 0
           THEN /\ stream' = [stream EXCEPT !.read = @ + k]
                /\ printed' = Append(printed,
                      [container |-> IF containerName # "" /\ Len(pod[1]) > 1
                                     THEN containerName ELSE "",
                       text |-> TrimSuffix(SubSeq(rest, 1, k))])
                /\ UNCHANGED <<spc, streamResult>>
           ELSE /\ stream' = [stream EXCEPT !.read = Len(stream.content)]
                /\ IF stream.end = "EOF"
                   THEN /\ printed' = printed
                        /\ ReturnStream(NoError)
                   ELSE /\ printed' = printed
                        /\ ReturnStream(Errorf("error reading logs", <<>>,
                                               "stream"))
    /\ UNCHANGED <<rolloutVars, forwardVars, loopVars, configVars, streamTool, dashIndex,
                   containerName, pod, listed, streamsOpened>>

InitStream ==
    /\ RolloutIdle
    /\ ForwardIdle
    /\ LoopsIdle
    /\ ConfigIdle
    /\ streamTool \in {"kube-exec", "kube-logs"}
    /\ dashIndex \in (0 - 1)..1
    /\ streamTool = "kube-logs" => dashIndex = 0 - 1
    /\ containerName \in ContainerFlags
    /\ spc = "start"
    /\ StreamFresh

NextStream ==
    \/ runExec_Start
    \/ runExec_GetPod
    \/ runExec_Stream
    \/ runLogs_Start
    \/ runLogs_GetPod
    \/ runLogs_Stream
    \/ runLogs_ReadString

SpecStream == InitStream /\ [][NextStream]_vars

----------------------------------------------------------------------------
\* Part 5: the kubeconfig files: kube-switch-context, kube-switch-namespace,
\* and NewClient and GetCurrentNamespace as kube-pods calls them

HomePath == "~/.kube/config"
AltPath == "/path/to/kubeconfig"
Paths == {HomePath, AltPath}
InCluster == "in-cluster"

\* The kubeconfig files: a current context (maybe none, maybe one that the
\* file does not hold) and contexts, each with its cluster and its namespace
\* (maybe none)
Contexts ==
    LET dev == [cluster : {"east"}, namespace : {"", "team"}]
        prod == [cluster |-> "west", namespace |-> "stage"]
    IN  {[n \in {"dev"} |-> d] : d \in dev}
        \cup {[n \in {"dev", "prod"} |-> IF n = "dev" THEN d ELSE prod] :
                  d \in dev}
Configs == [currentContext : {"", "dev", "prod"}, contexts : Contexts]

\* What the programs are given on the command line
ContextArgs == {"", "dev", "prod", "qa"}
NamespaceArgs == {"", "ops"}
PodsNamespaces == {"", "kube-system"}

\* switchContextGetKubeconfigPath / switchNamespaceGetKubeconfigPath
getKubeconfigPath == IF env.KUBECONFIG # "" THEN env.KUBECONFIG ELSE HomePath

\* What one run returned and did
Outcome(err, shown, wrote) ==
    [NoOutcome EXCEPT !.result = err, !.shown = shown, !.wrote = wrote]

\* clientcmd.WriteToFile: the file is replaced, or the write fails
WriteToFile(config, path, shown) ==
    \/ /\ files' = [files EXCEPT ![path] = config]
       /\ outcome' = Outcome(NoError, shown, path)
    \/ /\ files' = files
       /\ outcome' = Outcome(Errorf("failed to save kubeconfig", <<>>, "write"),
                             "", "")

\* Mutant: the contexts are lost when the current context is set
setCurrentContext_Alone(config, contextName) ==
    [currentContext |-> contextName,
     contexts |-> [n \in {contextName} |-> config.contexts[contextName]]]

\* config.CurrentContext = contextName
setCurrentContext(config, contextName) ==
    [config EXCEPT !.currentContext = contextName]

\* runSwitchContext: one run of kube-switch-context
runSwitchContext ==
    \E contextName \in ContextArgs :
       LET kubeconfig == getKubeconfigPath
           config == files[kubeconfig]
       IN  /\ invocation' = [NoInvocation EXCEPT !.tool = "kube-switch-context",
                                                 !.arg = contextName]
           /\ IF config = NoFile
              THEN /\ outcome' = Outcome(Errorf("failed to load kubeconfig",
                                                <<>>, "read"), "", "")
                   /\ files' = files
              ELSE IF contextName = ""
              THEN /\ outcome' = Outcome(NoError, "contexts", "")
                   /\ files' = files
              ELSE IF contextName \notin DOMAIN config.contexts
              THEN /\ outcome' = Outcome(Errorf("context not found", <<>>, ""),
                                         "", "")
                   /\ files' = files
              ELSE WriteToFile(setCurrentContext(config, contextName),
                               kubeconfig, "Switched to context")
           /\ UNCHANGED <<rolloutVars, forwardVars, loopVars, streamVars, env>>

\* Mutant: the namespace is set on every context of the file
setNamespace_Everywhere(config, namespaceName) ==
    [config EXCEPT !.contexts =
        [n \in DOMAIN config.contexts |->
            [config.contexts[n] EXCEPT !.namespace = namespaceName]]]

\* context.Namespace = namespaceName; config.Contexts[currentContext] = context
setNamespace(config, namespaceName) ==
    [config EXCEPT !.contexts[config.currentContext].namespace = namespaceName]

\* runSwitchNamespace: one run of kube-switch-namespace
runSwitchNamespace ==
    \E namespaceName \in NamespaceArgs :
       LET kubeconfig == getKubeconfigPath
           config == files[kubeconfig]
       IN  /\ invocation' = [NoInvocation EXCEPT !.tool = "kube-switch-namespace",
                                                 !.arg = namespaceName]
           /\ IF config = NoFile
              THEN /\ outcome' = Outcome(Errorf("failed to load kubeconfig",
                                                <<>>, "read"), "", "")
                   /\ files' = files
              ELSE IF config.currentContext = ""
              THEN /\ outcome' = Outcome(Errorf("no current context set",
                                                <<>>, ""), "", "")
                   /\ files' = files
              ELSE IF config.currentContext \notin DOMAIN config.contexts
              THEN /\ outcome' = Outcome(Errorf("current context not found",
                                                <<>>, ""), "", "")
                   /\ files' = files
              ELSE IF namespaceName = ""
              THEN /\ outcome' =
                        LET namespace ==
                               config.contexts[config.currentContext].namespace
                        IN  Outcome(NoError,
                                    IF namespace = "" THEN "default"
                                    ELSE namespace, "")
                   /\ files' = files
              ELSE WriteToFile(setNamespace(config, namespaceName),
                               kubeconfig, "Switched to namespace")
           /\ UNCHANGED <<rolloutVars, forwardVars, loopVars, streamVars, env>>

\* NewClient(kubeconfig, contextName): the results it can give, each the
\* error, where the configuration came from, and the context used
NewClient(kubeconfigArg, contextName) ==
    LET kubeconfig == IF kubeconfigArg = "" THEN HomePath ELSE kubeconfigArg
        config == files[kubeconfig]
        failed(msg) == [err |-> Errorf(msg, <<>>, "config"), source |-> "",
                        context |-> ""]
        built(c) == [err |-> NoError, source |-> kubeconfig, context |-> c]
    IN  IF env.inCluster
        THEN {[err |-> NoError, source |-> InCluster, context |-> ""]}
        ELSE IF config = NoFile
        THEN {failed("failed to build config from kubeconfig")}
        ELSE IF config.currentContext # ""
                /\ config.currentContext \notin DOMAIN config.contexts
        THEN {failed("failed to build config from kubeconfig")}
        ELSE IF contextName # "" /\ contextName \notin DOMAIN config.contexts
        THEN {failed("failed to build config with context")}
        ELSE IF contextName # ""
        THEN {built(contextName)}
        ELSE IF config.currentContext # ""
        THEN {built(config.currentContext)}
        \* no current context: the defaults of client-go decide
        ELSE {built(""), failed("failed to build config from kubeconfig")}

\* Mutant: the context given with -c is not looked at
GetCurrentNamespace_NoFlag(contextName) ==
    LET rawCfg == files[HomePath]
    IN  IF rawCfg = NoFile
        THEN [ns |-> "", err |-> Errorf("failed to load kubeconfig", <<>>, "read")]
        ELSE IF rawCfg.currentContext \notin DOMAIN rawCfg.contexts
             THEN [ns |-> "default", err |-> NoError]
             ELSE IF rawCfg.contexts[rawCfg.currentContext].namespace # ""
                  THEN [ns |-> rawCfg.contexts[rawCfg.currentContext].namespace,
                        err |-> NoError]
                  ELSE [ns |-> "default", err |-> NoError]

\* GetCurrentNamespace(contextName)
GetCurrentNamespace(contextName) ==
    LET kubeconfigPath == HomePath
        rawCfg == files[kubeconfigPath]
        activeContext == IF contextName = "" THEN rawCfg.currentContext
                         ELSE contextName
    IN  IF rawCfg = NoFile
        THEN [ns |-> "", err |-> Errorf("failed to load kubeconfig", <<>>, "read")]
        ELSE IF activeContext = ""
        THEN [ns |-> "default", err |-> NoError]
        ELSE IF activeContext \notin DOMAIN rawCfg.contexts
        THEN [ns |-> "default", err |-> NoError]
        ELSE IF rawCfg.contexts[activeContext].namespace # ""
        THEN [ns |-> rawCfg.contexts[activeContext].namespace, err |-> NoError]
        ELSE [ns |-> "default", err |-> NoError]

\* runPods: one run of kube-pods
runPods ==
    \E podsNamespace \in PodsNamespaces, podsContext \in ContextArgs,
       podsAllNamespaces \in BOOLEAN, listOk \in BOOLEAN :
       \E client \in NewClient("", podsContext) :
          LET current == GetCurrentNamespace(podsContext)
              podsTarget ==
                 IF podsAllNamespaces THEN ""
                 ELSE IF podsNamespace # "" THEN podsNamespace
                 ELSE current.ns
              built == [NoOutcome EXCEPT !.client = client.source,
                                         !.clientContext = client.context]
          IN  /\ invocation' = [tool |-> "kube-pods", arg |-> "",
                                namespace |-> podsNamespace,
                                context |-> podsContext,
                                all |-> podsAllNamespaces]
              /\ outcome' =
                    IF client.err # NoError
                    THEN Outcome(Errorf("failed to create kubernetes client",
                                        <<>>, client.err.msg), "", "")
                    ELSE IF podsNamespace = "" /\ current.err # NoError
                    THEN [built EXCEPT !.result =
                             Errorf("failed to get current namespace", <<>>,
                                    current.err.msg)]
                    ELSE [built EXCEPT
                             !.listed = TRUE,
                             !.namespace = podsTarget,
                             !.result = IF listOk THEN NoError
                                        ELSE Errorf("failed to list pods",
                                                    <<>>, "api")]
              /\ UNCHANGED <<rolloutVars, forwardVars, loopVars, streamVars,
                             env, files>>

InitConfig ==
    /\ RolloutIdle
    /\ ForwardIdle
    /\ LoopsIdle
    /\ StreamIdle
    /\ env \in [KUBECONFIG : {""} \cup Paths, inCluster : BOOLEAN]
    /\ files \in [Paths -> Configs \cup {NoFile}]
    /\ invocation = NoInvocation
    /\ outcome = NoOutcome

NextConfig ==
    \/ runSwitchContext
    \/ runSwitchNamespace
    \/ runPods

SpecConfig == InitConfig /\ [][NextConfig]_vars


----------------------------------------------------------------------------
\* Vocabulary of the properties

\* The convergence invariant of the data model, on one observation
Converged(d) ==
    /\ d.status.updatedReplicas = d.replicas
    /\ d.status.readyReplicas = d.replicas
    /\ d.status.availableReplicas = d.replicas
    /\ ~(d.status.observedGeneration < d.generation)

\* The invocation waits for the rollout (it does not just print the status)
Waiting == tool = "kube-deploy" \/ doRestart

\* The observation of the latest poll, when that poll's Get succeeded
Observed == fetches > 0 /\ dep # <<>>

\* The errors with which the wait loops report a failed Get
FetchErrors ==
    {Err("failed to get deployment during rollout", "", c) : c \in {"api", "not found"}}
    \cup {Err("failed to get deployment", "", c) : c \in {"api", "not found"}}

TimeoutError == Err("timeout waiting for rollout of deployment", DeploymentName, "")

\* Some program action is enabled
ProgramEnabled ==
    \/ ENABLED runDeploy_Start
    \/ ENABLED listDeployments
    \/ ENABLED runDeploy_Get
    \/ ENABLED runDeploy_Update
    \/ ENABLED waitForDeploymentRollout_Get
    \/ ENABLED waitForDeploymentRollout_Sleep
    \/ ENABLED runRollout_Start
    \/ ENABLED runRollout_RestartGet
    \/ ENABLED runRollout_RestartUpdate
    \/ ENABLED runRollout_Poll
    \/ ENABLED runRollout_Sleep

----------------------------------------------------------------------------
\* C1: a poll whose observation meets all four convergence conditions makes
\* the wait return success on that poll: the program is done with a nil
\* error, and no sleep follows that poll (every earlier poll was followed by
\* exactly one sleep, this one by none).
C1_ConvergedPollReturns ==
    (Observed /\ Converged(dep[1])) =>
        /\ pc = "done"
        /\ result = Nil
        /\ sleeps = fetches - 1

C1_Witness ==
    /\ Waiting
    /\ Observed
    /\ Converged(dep[1])
    /\ fetches = 3
    /\ pc = "done"

C4_Step ==
    /\ (fetches' = fetches + 1 /\ dep' = <<>>) =>
          /\ pc' = "done"
          /\ result' \in FetchErrors
          /\ result' # Nil
          /\ result' # TimeoutError
          /\ sleeps' = sleeps
    /\ pc = "done" => (fetches' = fetches /\ sleeps' = sleeps /\ result' = result)

\* C4: every step of every behaviour aborts the wait on a failed Get
C4_FetchErrorAborts == [][C4_Step]_vars

C4_Witness ==
    /\ pc = "done"
    /\ result \in FetchErrors
    /\ fetches = 2
    /\ sleeps = 1

\* C5: the wait makes at most MaxAttempts fetches, strictly one after the
\* other with exactly one sleep between two consecutive fetches, and the
\* program can always take its next step until it is done.
C5_BoundedSequentialPolling ==
    /\ fetches <= MaxAttempts
    /\ i <= MaxAttempts
    /\ pc = "poll" => (sleeps = fetches /\ (Waiting => i = fetches))
    /\ pc = "sleep" => sleeps = fetches - 1
    /\ pc = "done" => sleeps \in {fetches - 1, fetches} \/ fetches = 0
    /\ pc = "done" \/ ProgramEnabled

C5_Witness ==
    /\ pc = "poll"
    /\ fetches = MaxAttempts - 1
    /\ sleeps = MaxAttempts - 1

\* The flag --image is empty or holds white space only
BlankImage == \A k \in 1..Len(image) : image[k] \in WhiteSpace

\* The invocation asks for a mutation of the Deployment
Mutating ==
    \/ tool = "kube-deploy" /\ args # <<>> /\ ~BlankImage
    \/ tool = "kube-rollout" /\ doRestart

\* The cluster holds the object this program's Update stored
OwnWriteStored == writtenRV # NoRV /\ cluster.resourceVersion = writtenRV

\* C6: kube-deploy with a deployment name and an empty or white-space-only
\* --image fails before any call to the cluster: no Get, no Update, nothing
\* stored, and the invocation ends with an error.
C6_BlankImageNoWrite ==
    (tool = "kube-deploy" /\ args # <<>> /\ BlankImage) =>
        /\ updates = 0
        /\ fetches = 0
        /\ writtenRV = NoRV
        /\ pc \in {"start", "done"}
        /\ pc = "done" => result # Nil
        /\ \A k \in 1..Len(cluster.containers) : cluster.containers[k] # image

C6_Witness ==
    /\ tool = "kube-deploy"
    /\ args = <<DeploymentName>>
    /\ image = <<Tab, Space>>
    /\ pc = "done"
    /\ result = Err("--image is required when specifying a deployment", "", "")

\* C7: the Update of kube-deploy stores the fetched object with the image of
\* every container replaced by the requested string and nothing else changed,
\* and as long as that object is the stored one every container has exactly
\* the requested image.
C7_State ==
    (tool = "kube-deploy" /\ OwnWriteStored) =>
        \A k \in 1..Len(cluster.containers) : cluster.containers[k] = image

C7_Step ==
    (tool = "kube-deploy" /\ updates' = updates + 1 /\ pc' = "poll") =>
        /\ Len(cluster'.containers) = Len(dep[1].containers)
        /\ \A k \in 1..Len(cluster'.containers) : cluster'.containers[k] = image
        /\ cluster'.name = dep[1].name
        /\ cluster'.namespace = dep[1].namespace
        /\ cluster'.replicas = dep[1].replicas
        /\ cluster'.annotations = dep[1].annotations

\* C7: the stored object and the Update step of kube-deploy, together
C7_AllContainersGetImage == []C7_State /\ [][C7_Step]_vars

C7_Witness ==
    /\ tool = "kube-deploy"
    /\ OwnWriteStored
    /\ Len(cluster.containers) = 2
    /\ cluster.containers = <<image, image>>
    /\ pc = "poll"

\* C8: a mutation whose Deployment does not exist fails at its Get, and an
\* Update that meets a newer stored version is rejected: the error is
\* returned, the stored object stays the other client's, Update is called at
\* most once, and the program never polls.
C8_State ==
    /\ updates <= 1
    /\ (Mutating /\ ns # "" /\ ~Found(ns, args[1])) =>
          /\ updates = 0
          /\ fetches = 0
          /\ writtenRV = NoRV
          /\ pc \in {"get", "done"}
          /\ pc = "done" => result = Err("failed to get deployment", args[1], "not found")
    /\ (result.cause = "conflict") =>
          /\ pc = "done"
          /\ fetches = 0
          /\ writtenRV = NoRV

C8_Step ==
    (updates' = updates + 1 /\ dep[1].resourceVersion # cluster.resourceVersion) =>
        /\ cluster' = cluster
        /\ pc' = "done"
        /\ result' = Err("failed to update deployment", "", "conflict")
        /\ fetches' = 0

\* C8: a failed Get or a rejected Update ends the mutation, in every step
C8_FailedMutationStops == []C8_State /\ [][C8_Step]_vars

C8_Witness ==
    /\ pc = "done"
    /\ tool = "kube-deploy"
    /\ result = Err("failed to update deployment", "", "conflict")
    /\ otherWrites = 1
    /\ cluster.resourceVersion = 2

\* C9 as stated: once the restart is stored, the restartedAt annotation
\* denotes an instant that is not before the start of the restart call.
C9_Original ==
    (tool = "kube-rollout" /\ OwnWriteStored) =>
        /\ cluster.annotations.kv[RestartedAt] # Absent
        /\ InstantOf(cluster.annotations.kv[RestartedAt]) >= callStart

\* C9, amended: once the restart is stored, a read shows the restartedAt
\* annotation with a timestamp that is not older than the start of the call
\* cut to whole seconds (it is less than one second older than the start);
\* the Update overwrote the previous value and kept the other annotations and
\* the rest of the fetched object.
C9_State ==
    (tool = "kube-rollout" /\ OwnWriteStored) =>
        /\ ~cluster.annotations.nil
        /\ cluster.annotations.kv[RestartedAt] # Absent
        /\ cluster.annotations.kv[RestartedAt] # OldStamp
        /\ InstantOf(cluster.annotations.kv[RestartedAt]) + TicksPerSecond > callStart

C9_Step ==
    (tool = "kube-rollout" /\ updates' = updates + 1 /\ pc' = "poll") =>
        /\ cluster'.annotations.kv[OtherAnnotation]
              = cluster.annotations.kv[OtherAnnotation]
        /\ cluster'.containers = cluster.containers
        /\ cluster'.replicas = cluster.replicas

\* C9, amended: the stored annotation and the Update step of kube-rollout
C9_RestartedAtWritten == []C9_State /\ [][C9_Step]_vars

C9_Witness ==
    /\ tool = "kube-rollout"
    /\ OwnWriteStored
    /\ cluster.annotations.kv[OtherAnnotation] = OldStamp
    /\ InstantOf(cluster.annotations.kv[RestartedAt]) < callStart

\* C10 as stated: in status-only mode the program fetches once, prints one
\* observation, never sleeps and never updates.
C10_StatusOnlyNeverWaits ==
    (tool = "kube-rollout" /\ ~doRestart) =>
        /\ fetches <= 1
        /\ updates = 0
        /\ sleeps = 0
        /\ (pc = "done" /\ result = Nil) => stdout.obs = 1

----------------------------------------------------------------------------
\* The state machine of one invocation

\* Idle 0, Updating 1 (the Get and the Update of a mutation, or the List),
\* Polling 2, terminal 3
Phase(p) ==
    CASE p = "start" -> 0
      [] p \in {"get", "update", "list"} -> 1
      [] p \in {"poll", "sleep"} -> 2
      [] OTHER -> 3

OutcomeConverged == result = Nil /\ Observed /\ Converged(dep[1])
OutcomeTimedOut == result = TimeoutError
OutcomeFailed == result # Nil /\ result # TimeoutError

\* Status-only mode after an observation that is not converged: the status
\* was printed and nil returned
OutcomeReported ==
    /\ tool = "kube-rollout"
    /\ ~doRestart
    /\ result = Nil
    /\ ~OutcomeConverged
    /\ fetches = 1
    /\ stdout.obs = 1

ExactlyOne(S) == Cardinality({b \in S : b[2]}) = 1

C11_State ==
    (pc = "done" /\ args # <<>>) =>
        ExactlyOne({<<1, OutcomeConverged>>, <<2, OutcomeTimedOut>>,
                    <<3, OutcomeFailed>>, <<4, OutcomeReported>>})

C11_Step ==
    /\ Phase(pc') >= Phase(pc)
    /\ pc = "done" => (pc' = "done" /\ result' = result)
    /\ (pc' = "done" /\ pc # "done" /\ result' \in {Nil, TimeoutError}) =>
          Phase(pc) = 2 \/ args = <<>>
    /\ (updates' = updates + 1 /\ cluster' # cluster) => pc' = "poll"
    /\ (pc = "start" /\ tool = "kube-rollout" /\ ~doRestart
          /\ pc' \notin {"start", "done"}) => pc' = "poll"
    /\ (pc = "start" /\ Mutating /\ pc' \notin {"start", "done"}) => pc' = "get"

C12_Original ==
    (pc = "done" /\ result.msg = "timeout waiting for rollout of deployment") =>
        /\ DeploymentName \in {result.arg, result.cause}
        /\ ns \in {result.arg, result.cause}

\* C12, amended: the timeout error names the deployment, by its name only.
C12_TimeoutNamesDeployment ==
    (pc = "done" /\ result.msg = "timeout waiting for rollout of deployment") =>
        /\ args # <<>>
        /\ result.arg = args[1]
        /\ result.arg = cluster.name
        /\ ns \notin {result.arg, result.cause}

C12_Witness ==
    /\ pc = "done"
    /\ tool = "kube-rollout"
    /\ result.msg = "timeout waiting for rollout of deployment"
    /\ ns = DeploymentNamespace

----------------------------------------------------------------------------
\* parsePortSpec

Colons(s) == {k \in 1..Len(s) : s[k] = ":"}

\* A number: an optional sign and one or more digits
IsNumber(s) ==
    \E k \in 0..1 :
        /\ Len(s) > k
        /\ k = 1 => s[1] \in {"+", "-"}
        /\ \A j \in (k + 1)..Len(s) : s[j] \in Digit

ParseErrors ==
    {"invalid port number", "invalid local port number",
     "invalid remote port number"}

\* C17: "P" gives local = P and remote = P, "L:R" gives local = L and
\* remote = R; a part that is not a number gives a parse error, more than two
\* colon-separated parts give a format error, and the error is returned as
\* an invalid port specification naming the argument.
C17_ParsePortSpec ==
    fpc # "parse" =>
        LET n == Cardinality(Colons(portSpec))
            c == IF n = 1 THEN CHOOSE k \in Colons(portSpec) : TRUE ELSE 0
            L == SubSeq(portSpec, 1, c - 1)
            R == SubSeq(portSpec, c + 1, Len(portSpec))
            failed(causes) ==
                /\ fpc = "returned"
                /\ ports = <<>>
                /\ forwardResult.msg = "invalid port specification"
                /\ forwardResult.arg = portSpec
                /\ forwardResult.cause \in causes
        IN  CASE n > 1 -> failed({"invalid port specification format"})
              [] n = 1 /\ IsNumber(L) /\ IsNumber(R) ->
                    /\ fpc = "client"
                    /\ ports = <<Atoi(L).val, Atoi(R).val>>
                    /\ forwardResult = Pending
              [] n = 0 /\ IsNumber(portSpec) ->
                    /\ fpc = "client"
                    /\ ports = <<Atoi(portSpec).val, Atoi(portSpec).val>>
                    /\ forwardResult = Pending
              [] OTHER -> failed(ParseErrors)

C17_Witness ==
    /\ portSpec = <<"1", "2", ":", "2">>
    /\ ports = <<12, 2>>
    /\ fpc = "client"

----------------------------------------------------------------------------
\* resolveTargetPod

\* The target starts with svc/ or service/, in any letter case
HasServicePrefix(t) ==
    \E prefix \in {<<"s", "v", "c", "/">>,
                   <<"s", "e", "r", "v", "i", "c", "e", "/">>} :
        /\ Len(t) >= Len(prefix)
        /\ \A k \in 1..Len(prefix) : Lower(t[k]) = prefix[k]

\* What follows the first "/" of the target
Remainder(t) ==
    LET slash == CHOOSE k \in 1..Len(t) :
                    t[k] = "/" /\ \A j \in 1..(k - 1) : t[j] # "/"
    IN  [k \in 1..(Len(t) - slash) |-> t[slash + k]]

\* A step of resolveTargetPod that issues its Get or returns
ResolveStep == fpc = "resolve" /\ fpc' \in {"scan", "transport", "returned"}

\* A step that runs the loops over the fetched Endpoints
ScanStep == fpc = "scan" /\ fpc' \in {"transport", "returned"}

\* The address is a reference to a pod
RefersToPod(addr) == addr.ref /\ addr.kind = "Pod" /\ addr.name # <<>>

C13_Step ==
    ScanStep =>
        LET subsets == eps[1]
            positions == UNION {{<<si, ai>> : ai \in 1..Len(subsets[si])} :
                                 si \in 1..Len(subsets)}
            matches == {q \in positions : RefersToPod(subsets[q[1]][q[2]])}
            before(q, r) == q[1] < r[1] \/ (q[1] = r[1] /\ q[2] < r[2])
        IN  IF matches = {}
            THEN /\ fpc' = "returned"
                 /\ forwardResult'.msg = "no backing pod found for service"
                 /\ podName' = <<>>
            ELSE /\ fpc' = "transport"
                 /\ forwardResult' = Pending
                 /\ \E q \in matches :
                       /\ \A r \in matches : r = q \/ before(q, r)
                       /\ podName' = subsets[q[1]][q[2]].name

\* C13: for a service target the subsets are scanned in order and the
\* addresses of each subset in order; the name of the first address that
\* refers to a pod (kind Pod, name not empty) is returned, whatever precedes
\* it is skipped and no later match is ever returned.
C13_FirstPodReferenceWins == [][C13_Step]_vars

C13_Witness ==
    /\ HasServicePrefix(target)
    /\ lookups.endpoints = 1
    /\ fpc = "waitReady"
    /\ podName = <<"q">>

C14_Step ==
    (ResolveStep /\ HasServicePrefix(target)) =>
        IF Remainder(target) = <<>>
        THEN /\ fpc' = "returned"
             /\ forwardResult'.msg = "invalid service target, expected svc/<name>"
             /\ lookups' = lookups
        ELSE /\ lookups'.endpoints = lookups.endpoints + 1
             /\ lookups'.pods = lookups.pods
             /\ lookups'.name = Remainder(target)
             /\ fpc' = "returned" =>
                   /\ forwardResult'.msg = "failed to get endpoints for service"
                   /\ forwardResult'.arg = Remainder(target)

\* C14: a target with the prefix svc/ or service/ in any letter case is a
\* service whose name is what follows the first "/"; when nothing follows,
\* the invalid-target error is returned and the cluster is not asked.
C14_ServicePrefix == [][C14_Step]_vars

C14_Witness ==
    /\ target = <<"S", "v", "C", "/", "a">>
    /\ lookups = [pods |-> 0, endpoints |-> 1, name |-> <<"a">>]
    /\ podName = <<"p">>

C15_State ==
    ~HasServicePrefix(target) => lookups.endpoints = 0 /\ eps = <<>>

C15_Step ==
    (ResolveStep /\ ~HasServicePrefix(target)) =>
        /\ lookups' = [pods |-> lookups.pods + 1, endpoints |-> 0,
                       name |-> target]
        /\ \/ /\ fpc' = "transport"
              /\ podName' = target
              /\ forwardResult' = Pending
           \/ /\ fpc' = "returned"
              /\ podName' = <<>>
              /\ forwardResult'.msg = "failed to get pod"
              /\ forwardResult'.arg = target

\* C15: a target without the service prefix is a pod name: one Get of that
\* pod is issued; when it succeeds the target is returned unchanged, when it
\* fails the pod-not-found error naming the target is returned; the
\* Endpoints are never asked for.
C15_LiteralPodName == []C15_State /\ [][C15_Step]_vars

C15_Witness ==
    /\ target = <<"s", "v", "c">>
    /\ podName = target
    /\ lookups = [pods |-> 1, endpoints |-> 0, name |-> target]
    /\ fpc = "waitReady"

ResolveErrors ==
    {"failed to get endpoints for service", "no backing pod found for service"}

C16_State ==
    /\ lookups.endpoints <= 1
    /\ forwardResult.msg \in ResolveErrors =>
          /\ fpc \in {"returned", "exited"}
          /\ lookups.endpoints = 1
          /\ lookups.pods = 0
          /\ podName = <<>>
          /\ ~notified
          /\ handler = "none"
          /\ forwarder = "none"
          /\ readyCh = 0
          /\ exitCode \in {Absent, 1, KilledBySignal}

C16_Step ==
    /\ (ResolveStep /\ HasServicePrefix(target) /\ fpc' = "returned"
          /\ lookups' # lookups) =>
          forwardResult'.msg = "failed to get endpoints for service"
    /\ (ScanStep /\ fpc' = "returned") =>
          forwardResult'.msg = "no backing pod found for service"
    /\ forwardResult.msg \in ResolveErrors => forwardResult' = forwardResult

\* C16: a service target is resolved with one Get of the Endpoints and no
\* retry; a failed Get returns the lookup-failed error, Endpoints without a
\* pod reference return the no-backing-pod error; after either error nothing
\* else is looked up, no goroutine is started and no tunnel is opened.
C16_SingleLookupTerminalFailure == []C16_State /\ [][C16_Step]_vars

C16_Witness ==
    /\ forwardResult.msg = "no backing pod found for service"
    /\ lookups.endpoints = 1
    /\ exitCode = 1

----------------------------------------------------------------------------
\* The channels of runPortForward

\* The interrupt was handled before the tunnel was ready
StoppedBeforeReady ==
    /\ fpc = "waitReady"
    /\ exitCode = Absent
    /\ stopCh > 0
    /\ readyCh = 0

\* C18: while runPortForward waits for the tunnel to be ready, the wait ends
\* on whichever comes first, ready or the interrupt: once the interrupt has
\* closed the stop channel before ready, runPortForward can go on, or at
\* least the forwarder is still at work and can make the tunnel ready.
C18_InterruptEndsReadyWait ==
    StoppedBeforeReady =>
        \/ ENABLED runPortForward_WaitReady
        \/ ENABLED runPortForward_WaitStop
        \/ forwarder = "dialing"

C19_State ==
    /\ stopCh <= 1
    /\ stopCh = 1 => signals >= 1
    /\ stopCh = 1 <=> handler = "exited"
    /\ (fpc \in {"returned", "exited"} /\ forwardResult = NoError) => stopCh = 1

C19_Step ==
    stopCh' # stopCh =>
        /\ stopCh = 0
        /\ stopCh' = 1
        /\ signalCh = 1
        /\ handler = "waiting"

\* C19: in every interleaving of the goroutines and for any number of
\* signals, close(stopCh) is executed by the goroutine that received the
\* first signal delivered through signalCh, once, and never a second time.
C19_StopClosedOnce == []C19_State /\ [][C19_Step]_vars

C19_Witness ==
    /\ stopCh = 1
    /\ signals >= 2
    /\ signalCh = 1
    /\ handler = "exited"
    /\ exitCode = Absent

\* Some operation of the invocation failed
OperationFailed ==
    \/ forwardResult \notin {Pending, NoError}
    \/ stderr.PortForwardingError > 0

\* C20 as stated: every error, the error returned by ForwardPorts included,
\* reaches main and is printed there, once, behind "Error:", and the process
\* exits with 1; it exits with 0 only when no operation failed.
C20_ErrorsReachBoundary ==
    /\ stderr.PortForwardingError = 0
    /\ stderr.Error <= 1
    /\ exitCode = 1 => (OperationFailed /\ stderr.Error = 1)
    /\ exitCode = 0 => (~OperationFailed /\ stderr.Error = 0)

----------------------------------------------------------------------------
\* The desired replica count of a poll

\* A poll of the wait loop that fetched the Deployment
PollStep == pc = "poll" /\ pc' \in {"sleep", "done"} /\ dep' # <<>>

C26_Step ==
    PollStep =>
        /\ dep'[1].replicas = cluster.replicas
        /\ dep'[1].generation = cluster.generation
        /\ (pc' = "done" /\ result' = Nil) <=>
              /\ dep'[1].status.updatedReplicas = cluster.replicas
              /\ dep'[1].status.readyReplicas = cluster.replicas
              /\ dep'[1].status.availableReplicas = cluster.replicas
              /\ dep'[1].status.observedGeneration >= cluster.generation

\* C26: every poll compares the status it fetched with the desired replica
\* count and the generation the cluster holds at that fetch: after another
\* client has scaled the Deployment, the polls that follow use the new count,
\* and convergence is never declared against an earlier count.
C26_DesiredCountOfSameFetch == [][C26_Step]_vars

C26_Witness ==
    /\ pc = "done"
    /\ result = Nil
    /\ Waiting
    /\ fetches >= 2
    /\ otherWrites = 1
    /\ writtenRV # NoRV
    /\ cluster.resourceVersion > writtenRV
    /\ Observed
    /\ dep[1].replicas = cluster.replicas

----------------------------------------------------------------------------
\* The forwarding task has exited

ForwarderGone ==
    /\ forwarder = "exited"
    /\ fpc \in {"waitReady", "waitStop"}
    /\ exitCode = Absent

\* C28: once ForwardPorts has returned, before or after ready, and without
\* an interrupt, runPortForward does not stay in its wait on the ready or
\* the stop channel: it can go on.
C28_NoWaitAfterForwarderExit ==
    (ForwarderGone /\ signals = 0) =>
        \/ ENABLED runPortForward_WaitReady
        \/ ENABLED runPortForward_WaitStop

----------------------------------------------------------------------------
\* The two wait loops

\* The same result: nil, the same timeout, or the error of the same failed
\* Get (each loop wraps it in its own message)
SameResult(a, b) ==
    /\ a.arg = b.arg
    /\ a.cause = b.cause
    /\ \/ a.msg = b.msg
       \/ /\ a.msg = "failed to get deployment during rollout"
          /\ b.msg = "failed to get deployment"
          /\ a.cause # ""

\* C29: on the same sequence of outcomes of the Get, the wait loop of
\* kube-deploy and the loop of kube-rollout in restart mode stop at the same
\* iteration with the same result: nil on the same poll, the error of the
\* same failed Get, or the timeout after the same number of fetches; only
\* kube-rollout prints the observations.
C29_LoopsAgree ==
    /\ waitLoop.pc = rolloutLoop.pc
    /\ waitLoop.i = rolloutLoop.i
    /\ waitLoop.fetches = rolloutLoop.fetches
    /\ SameResult(waitLoop.result, rolloutLoop.result)
    /\ waitLoop.obs = 0
    /\ rolloutLoop.obs = rolloutLoop.fetches - (IF rolloutLoop.result.cause # "" THEN 1 ELSE 0)

C29_Witness ==
    /\ waitLoop.pc = "done"
    /\ rolloutLoop.pc = "done"
    /\ waitLoop.fetches = MaxAttempts
    /\ waitLoop.result = TimeoutError
    /\ rolloutLoop.result = TimeoutError

----------------------------------------------------------------------------
\* kube-exec and kube-logs

MustSpecify == Errorf("please specify container with -c flag", <<>>, "")

\* The step of runExec or runLogs that gets the pod
C21_Step ==
    (spc = "getPod" /\ pod' # <<>>) =>
        IF containerName = "" /\ Len(pod'[1]) > 1
        THEN /\ spc' = "returned"
             /\ streamResult' = MustSpecify
             /\ listed' = pod'[1]
             /\ containerName' = ""
        ELSE /\ spc' = "stream"
             /\ listed' = <<>>
             /\ containerName' =
                   IF containerName = "" THEN pod'[1][1] ELSE containerName

RECURSIVE Lines(_)
Lines(s) ==
    IF s = <<>> THEN <<>>
    ELSE LET k == IndexOf(s, NewLine)
         IN  IF k = 0 THEN <<s>>
             ELSE <<SubSeq(s, 1, k - 1)>> \o Lines(SubSeq(s, k + 1, Len(s)))

\* C30: when kube-logs has returned after opening the stream, a stream that
\* ended with EOF gave nil and every line of it was printed, in order, the
\* last one also when no newline ends it; a stream that ended with another
\* read error gave the error "error reading logs".
C30_NothingLost ==
    (streamTool = "kube-logs" /\ spc = "returned" /\ streamsOpened = 1) =>
        IF stream.end = "EOF"
        THEN /\ streamResult = NoError
             /\ [j \in 1..Len(printed) |-> printed[j].text] = Lines(stream.content)
        ELSE streamResult = Errorf("error reading logs", <<>>, "stream")

----------------------------------------------------------------------------
\* The kubeconfig files

\* The namespace a context stands for
NamespaceOrDefault(config, name) ==
    IF name = "" \/ name \notin DOMAIN config.contexts THEN "default"
    ELSE IF config.contexts[name].namespace = "" THEN "default"
    ELSE config.contexts[name].namespace

\* One run of kube-switch-context
C22_Step ==
    invocation'.tool = "kube-switch-context" =>
        LET kubeconfig == getKubeconfigPath
            config == files[kubeconfig]
            contextName == invocation'.arg
        IN  /\ \A q \in Paths \ {kubeconfig} : files'[q] = files[q]
            /\ IF config = NoFile
               THEN files' = files /\ outcome'.result.msg = "failed to load kubeconfig"
               ELSE IF contextName = ""
               THEN files' = files /\ outcome'.result = NoError
                    /\ outcome'.wrote = ""
               ELSE IF contextName \notin DOMAIN config.contexts
               THEN files' = files /\ outcome'.wrote = ""
                    /\ outcome'.result = Errorf("context not found", <<>>, "")
               ELSE IF outcome'.result = NoError
               THEN /\ outcome'.wrote = kubeconfig
                    /\ files'[kubeconfig].currentContext = contextName
                    /\ files'[kubeconfig].contexts = config.contexts
               ELSE files' = files /\ outcome'.wrote = ""

\* C22: kube-switch-context with a name that the kubeconfig does not hold
\* fails and leaves the file as it was; with a name it holds it rewrites the
\* file with that name as current context and every context as it was; with
\* no argument it lists and writes nothing; no other file is ever touched.
C22_SwitchContext == [][C22_Step]_vars

C22_Witness ==
    /\ invocation.tool = "kube-switch-context"
    /\ invocation.arg = "prod"
    /\ outcome.result = NoError
    /\ outcome.wrote = AltPath
    /\ files[AltPath].currentContext = "prod"
    /\ DOMAIN files[AltPath].contexts = {"dev", "prod"}

\* One run of kube-switch-namespace
C23_Step ==
    invocation'.tool = "kube-switch-namespace" =>
        LET kubeconfig == getKubeconfigPath
            config == files[kubeconfig]
            namespaceName == invocation'.arg
        IN  /\ \A q \in Paths \ {kubeconfig} : files'[q] = files[q]
            /\ IF config = NoFile
               THEN files' = files /\ outcome'.result.msg = "failed to load kubeconfig"
               ELSE IF config.currentContext = ""
                       \/ config.currentContext \notin DOMAIN config.contexts
               THEN files' = files /\ outcome'.wrote = ""
                    /\ outcome'.result.msg \in {"no current context set",
                                                "current context not found"}
               ELSE IF namespaceName = ""
               THEN /\ files' = files
                    /\ outcome'.wrote = ""
                    /\ outcome'.result = NoError
                    /\ outcome'.shown =
                          NamespaceOrDefault(config, config.currentContext)
               ELSE IF outcome'.result = NoError
               THEN LET written == files'[kubeconfig]
                        current == config.currentContext
                    IN  /\ outcome'.wrote = kubeconfig
                        /\ written.currentContext = current
                        /\ DOMAIN written.contexts = DOMAIN config.contexts
                        /\ \A n \in DOMAIN config.contexts \ {current} :
                              written.contexts[n] = config.contexts[n]
                        /\ written.contexts[current].cluster =
                              config.contexts[current].cluster
                        /\ written.contexts[current].namespace = namespaceName
               ELSE files' = files /\ outcome'.wrote = ""

\* C23: kube-switch-namespace with an argument changes nothing but the
\* namespace of the current context of the kubeconfig; when there is no
\* current context, or the file does not hold it, it fails and writes
\* nothing; with no argument it prints the namespace of the current context
\* ("default" when it has none) and writes nothing.
C23_SwitchNamespace == [][C23_Step]_vars

C23_Witness ==
    /\ invocation.tool = "kube-switch-namespace"
    /\ invocation.arg = "ops"
    /\ outcome.result = NoError
    /\ outcome.wrote = HomePath
    /\ files[HomePath].currentContext = "dev"
    /\ DOMAIN files[HomePath].contexts = {"dev", "prod"}
    /\ files[HomePath].contexts["dev"].namespace = "ops"
    /\ files[HomePath].contexts["prod"].namespace = "stage"

\* A run of kube-pods without -n, -c and -A that follows a successful switch
C24_Step ==
    (/\ outcome.result = NoError
     /\ outcome.wrote # ""
     /\ invocation'.tool = "kube-pods"
     /\ invocation'.namespace = ""
     /\ invocation'.context = ""
     /\ ~invocation'.all
     /\ outcome'.listed) =>
        /\ invocation.tool = "kube-switch-namespace" =>
              outcome'.namespace = invocation.arg
        /\ invocation.tool = "kube-switch-context" =>
              outcome'.namespace =
                 NamespaceOrDefault(files[outcome.wrote], invocation.arg)

\* C24: after kube-switch-namespace X has succeeded, a following run of a
\* tool without -n, -c and -A works in namespace X, and after
\* kube-switch-context C in the namespace of C, in every environment, also
\* when KUBECONFIG is set.
C24_SwitchThenTool == [][C24_Step]_vars

\* C25: outside a cluster, the client of a tool is built from the file that
\* KUBECONFIG names when it is set, and from ~/.kube/config only when it is
\* not.
C25_ClientFromKUBECONFIG ==
    (invocation.tool = "kube-pods" /\ outcome.client # "" /\ ~env.inCluster) =>
        outcome.client = getKubeconfigPath

====
